---- MODULE Spec2Model ----
(***************************************************************************)
(* QuAIz: the streaming JSON extraction and recovery engine that sits      *)
(* between the token stream of the language model and the quiz store.      *)
(*                                                                         *)
(* Text is a sequence of one-character strings.  Positions inside the      *)
(* operators that mirror the TypeScript code are the 0-based positions of  *)
(* the source (indexOf returns -1 when nothing is found); CharAt and Slice *)
(* translate them to the 1-based sequences of TLA+.                        *)
(*                                                                         *)
(* JSON values are tagged records:                                         *)
(*   [t |-> "undef"]  [t |-> "null"]  [t |-> "bool", b |-> TRUE]           *)
(*   [t |-> "num", n |-> 1]  [t |-> "str", s |-> <<chars>>]                *)
(*   [t |-> "arr", a |-> <<values>>]                                       *)
(*   [t |-> "obj", o |-> <<[k |-> <<chars>>, v |-> value], ...>>]          *)
(* The members of an object keep the insertion order of JavaScript.        *)
(* Number literals are integers: the texts of this model hold no '.', and  *)
(* no exponent.                                                            *)
(***************************************************************************)
EXTENDS Integers, Sequences, FiniteSets, TLC

----------------------------------------------------------------------------
(* JavaScript string primitives *)

CharAt(s, i) == s[i + 1]

Min(a, b) == IF a < b THEN a ELSE b

Max(a, b) == IF a > b THEN a ELSE b

\* String.prototype.slice(a, b) for 0 <= a: both ends are clamped to the length
Slice(s, a, b) == SubSeq(s, Min(a, Len(s)) + 1, Min(b, Len(s)))

SliceFrom(s, a) == Slice(s, a, Len(s))

StartsWithAt(s, sub, i) ==
    /\ i + Len(sub) <= Len(s)
    /\ SubSeq(s, i + 1, i + Len(sub)) = sub

Least(S) == CHOOSE x \in S : \A y \in S : x <= y

\* String.prototype.indexOf(sub, i): the first position >= i where sub starts
IndexOfFrom(s, sub, i) ==
    LET hits == {j \in i..(Len(s) - Len(sub)) : StartsWithAt(s, sub, j)}
    IN IF hits = {} THEN -1 ELSE Least(hits)

\* String.prototype.indexOf
IndexOf(s, sub) == IndexOfFrom(s, sub, 0)

\* String.prototype.includes
Includes(s, sub) == IndexOf(s, sub) # -1

\* the characters the regular expression class \s matches
WhiteSpace == {" ", "\n", "\t", "\r"}

\* the characters JSON.parse skips between tokens
JsonWhiteSpace == {" ", "\n", "\t", "\r"}

Digits == {"0", "1", "2", "3", "4", "5", "6", "7", "8", "9"}

DigitVal(c) ==
    CASE c = "0" -> 0 [] c = "1" -> 1 [] c = "2" -> 2 [] c = "3" -> 3
      [] c = "4" -> 4 [] c = "5" -> 5 [] c = "6" -> 6 [] c = "7" -> 7
      [] c = "8" -> 8 [] c = "9" -> 9

DigitChar(n) ==
    CASE n = 0 -> "0" [] n = 1 -> "1" [] n = 2 -> "2" [] n = 3 -> "3"
      [] n = 4 -> "4" [] n = 5 -> "5" [] n = 6 -> "6" [] n = 7 -> "7"
      [] n = 8 -> "8" [] n = 9 -> "9"

----------------------------------------------------------------------------
(* JSON values *)

Undef == [t |-> "undef"]

JNull == [t |-> "null"]

JBool(b) == [t |-> "bool", b |-> b]

JNum(n) == [t |-> "num", n |-> n]

JStr(s) == [t |-> "str", s |-> s]

JArr(a) == [t |-> "arr", a |-> a]

JObj(o) == [t |-> "obj", o |-> o]

\* obj[key] in JavaScript: undefined when the key is absent or obj is a primitive
Get(obj, key) ==
    IF obj.t # "obj" THEN Undef
    ELSE LET hit == {i \in 1..Len(obj.o) : obj.o[i].k = key}
         IN IF hit = {} THEN Undef ELSE obj.o[CHOOSE i \in hit : TRUE].v

\* key in obj
HasKey(obj, key) == obj.t = "obj" /\ \E i \in 1..Len(obj.o) : obj.o[i].k = key

\* obj[key] = val on a members list: an existing key keeps its place
PutMember(o, key, val) ==
    IF \E i \in 1..Len(o) : o[i].k = key
    THEN [i \in 1..Len(o) |-> IF o[i].k = key THEN [k |-> key, v |-> val] ELSE o[i]]
    ELSE Append(o, [k |-> key, v |-> val])

\* { ...obj, key: val }
Put(obj, key, val) == JObj(PutMember(obj.o, key, val))

\* ToBoolean of JavaScript
Truthy(v) ==
    CASE v.t = "undef" -> FALSE
      [] v.t = "null" -> FALSE
      [] v.t = "bool" -> v.b
      [] v.t = "num" -> v.n # 0
      [] v.t = "str" -> v.s # <<>>
      [] OTHER -> TRUE

----------------------------------------------------------------------------
(* JSON.parse *)

ParseFail == [ok |-> FALSE, val |-> Undef, pos |-> 0]

ParseOk(v, p) == [ok |-> TRUE, val |-> v, pos |-> p]

RECURSIVE SkipWs(_, _)
SkipWs(s, i) ==
    IF i < Len(s) /\ s[i + 1] \in JsonWhiteSpace THEN SkipWs(s, i + 1) ELSE i

\* the character an escape sequence \c stands for
Unescape(c) ==
    CASE c = "\"" -> "\""
      [] c = "\\" -> "\\"
      [] c = "/" -> "/"
      [] c = "n" -> "\n"
      [] c = "t" -> "\t"
      [] c = "r" -> "\r"

EscapeChars == {"\"", "\\", "/", "n", "t", "r"}

\* the body of a string literal, from the character after the opening quote
RECURSIVE ScanString(_, _, _)
ScanString(s, i, acc) ==
    IF i >= Len(s) THEN ParseFail
    ELSE LET c == s[i + 1] IN
         IF c = "\"" THEN ParseOk(JStr(acc), i + 1)
         ELSE IF c = "\\" THEN
              IF i + 1 < Len(s) /\ s[i + 2] \in EscapeChars
              THEN ScanString(s, i + 2, Append(acc, Unescape(s[i + 2])))
              ELSE ParseFail
         ELSE IF c \in {"\n", "\t", "\r"} THEN ParseFail
         ELSE ScanString(s, i + 1, Append(acc, c))

RECURSIVE ScanDigits(_, _, _)
ScanDigits(s, i, n) ==
    IF i < Len(s) /\ s[i + 1] \in Digits
    THEN ScanDigits(s, i + 1, 10 * n + DigitVal(s[i + 1]))
    ELSE [n |-> n, pos |-> i]

\* an integer literal: -?(0|[1-9][0-9]*)
ParseNumber(s, i) ==
    LET neg == s[i + 1] = "-"
        j == IF neg THEN i + 1 ELSE i
    IN IF j >= Len(s) \/ s[j + 1] \notin Digits THEN ParseFail
       ELSE IF s[j + 1] = "0" THEN ParseOk(JNum(0), j + 1)
       ELSE LET d == ScanDigits(s, j, 0)
            IN ParseOk(JNum(IF neg THEN 0 - d.n ELSE d.n), d.pos)

LitTrue == <<"t", "r", "u", "e">>

LitFalse == <<"f", "a", "l", "s", "e">>

LitNull == <<"n", "u", "l", "l">>

RECURSIVE ParseValue(_, _)
RECURSIVE ParseMembers(_, _, _)
RECURSIVE ParseElements(_, _, _)

ParseValue(s, i0) ==
    LET i == SkipWs(s, i0) IN
    IF i >= Len(s) THEN ParseFail
    ELSE LET c == s[i + 1] IN
         CASE c = "{" ->
                LET j == SkipWs(s, i + 1)
                IN IF j < Len(s) /\ s[j + 1] = "}"
                   THEN ParseOk(JObj(<<>>), j + 1)
                   ELSE ParseMembers(s, j, <<>>)
           [] c = "[" ->
                LET j == SkipWs(s, i + 1)
                IN IF j < Len(s) /\ s[j + 1] = "]"
                   THEN ParseOk(JArr(<<>>), j + 1)
                   ELSE ParseElements(s, j, <<>>)
           [] c = "\"" -> ScanString(s, i + 1, <<>>)
           [] c \in Digits \cup {"-"} -> ParseNumber(s, i)
           [] c = "t" -> IF StartsWithAt(s, LitTrue, i)
                         THEN ParseOk(JBool(TRUE), i + 4) ELSE ParseFail
           [] c = "f" -> IF StartsWithAt(s, LitFalse, i)
                         THEN ParseOk(JBool(FALSE), i + 5) ELSE ParseFail
           [] c = "n" -> IF StartsWithAt(s, LitNull, i)
                         THEN ParseOk(JNull, i + 4) ELSE ParseFail
           [] OTHER -> ParseFail

\* "key" : value, then ',' and the next member, or '}'
ParseMembers(s, i, acc) ==
    IF i >= Len(s) \/ s[i + 1] # "\"" THEN ParseFail
    ELSE LET key == ScanString(s, i + 1, <<>>) IN
         IF ~key.ok THEN ParseFail
         ELSE LET j == SkipWs(s, key.pos) IN
              IF j >= Len(s) \/ s[j + 1] # ":" THEN ParseFail
              ELSE LET val == ParseValue(s, j + 1) IN
                   IF ~val.ok THEN ParseFail
                   ELSE LET k == SkipWs(s, val.pos)
                            members == PutMember(acc, key.val.s, val.val)
                        IN IF k >= Len(s) THEN ParseFail
                           ELSE IF s[k + 1] = "}"
                                THEN ParseOk(JObj(members), k + 1)
                           ELSE IF s[k + 1] = ","
                                THEN ParseMembers(s, SkipWs(s, k + 1), members)
                           ELSE ParseFail

\* value, then ',' and the next element, or ']'
ParseElements(s, i, acc) ==
    LET val == ParseValue(s, i) IN
    IF ~val.ok THEN ParseFail
    ELSE LET k == SkipWs(s, val.pos)
             elems == Append(acc, val.val)
         IN IF k >= Len(s) THEN ParseFail
            ELSE IF s[k + 1] = "]" THEN ParseOk(JArr(elems), k + 1)
            ELSE IF s[k + 1] = "," THEN ParseElements(s, k + 1, elems)
            ELSE ParseFail

\* the value r parsed from s is the whole text but for trailing white space
WholeText(s, r) ==
    IF r.ok /\ SkipWs(s, r.pos) = Len(s)
    THEN [ok |-> TRUE, val |-> r.val]
    ELSE [ok |-> FALSE, val |-> Undef]

\* JSON.parse(text): ok = FALSE stands for the SyntaxError it throws
JSONParse(s) == WholeText(s, ParseValue(s, 0))

----------------------------------------------------------------------------
(* JSON.stringify without indentation *)

RECURSIVE NatChars(_)
NatChars(n) ==
    IF n < 10 THEN <<DigitChar(n)>>
    ELSE Append(NatChars(n \div 10), DigitChar(n % 10))

IntChars(n) == IF n < 0 THEN <<"-">> \o NatChars(0 - n) ELSE NatChars(n)

EscapeOne(c) ==
    CASE c = "\"" -> <<"\\", "\"">>
      [] c = "\\" -> <<"\\", "\\">>
      [] c = "\n" -> <<"\\", "n">>
      [] c = "\t" -> <<"\\", "t">>
      [] c = "\r" -> <<"\\", "r">>
      [] OTHER -> <<c>>

RECURSIVE EscapeAll(_, _)
EscapeAll(s, i) ==
    IF i > Len(s) THEN <<>> ELSE EscapeOne(s[i]) \o EscapeAll(s, i + 1)

Quote(s) == <<"\"">> \o EscapeAll(s, 1) \o <<"\"">>

RECURSIVE Stringify(_)
RECURSIVE StringifyMembers(_, _, _)
RECURSIVE StringifyElements(_, _)

Stringify(v) ==
    CASE v.t = "null" -> LitNull
      [] v.t = "undef" -> LitNull
      [] v.t = "bool" -> IF v.b THEN LitTrue ELSE LitFalse
      [] v.t = "num" -> IntChars(v.n)
      [] v.t = "str" -> Quote(v.s)
      [] v.t = "arr" -> <<"[">> \o StringifyElements(v.a, 1) \o <<"]">>
      [] v.t = "obj" -> <<"{">> \o StringifyMembers(v.o, 1, TRUE) \o <<"}">>

\* a member whose value is undefined is left out
StringifyMembers(o, i, first) ==
    IF i > Len(o) THEN <<>>
    ELSE IF o[i].v.t = "undef" THEN StringifyMembers(o, i + 1, first)
    ELSE (IF first THEN <<>> ELSE <<",">>)
         \o Quote(o[i].k) \o <<":">> \o Stringify(o[i].v)
         \o StringifyMembers(o, i + 1, FALSE)

StringifyElements(a, i) ==
    IF i > Len(a) THEN <<>>
    ELSE (IF i = 1 THEN <<>> ELSE <<",">>)
         \o Stringify(a[i]) \o StringifyElements(a, i + 1)

----------------------------------------------------------------------------
(* llm/utils/jsonUtils.ts *)

\* json: null of the extraction result
NoText == <<>>

\* A loop `for (i = lo; i <= hi; i++)` of the source is modelled by its body (a
\* ...Step operator on the loop's variables) and a ...Scan operator that runs the
\* body over lo..hi in order: the left half first, its result handed to the
\* right half.  A `break` is a flag of the loop state that ends the scan.

\* a variant of JsonEndStep that ends the scan at the first closing brace
JsonEndStepFirstClose(jsonContent, i, st) ==
    LET char == jsonContent[i + 1] IN
    IF char = "{" THEN [st EXCEPT !.braceCount = @ + 1]
    ELSE IF char = "}" THEN [braceCount |-> st.braceCount - 1, jsonEnd |-> i]
    ELSE st

\* the body of the loop of extractJSONFromStream
JsonEndStep(jsonContent, i, st) ==
    LET char == jsonContent[i + 1] IN
    IF char = "{" THEN [st EXCEPT !.braceCount = @ + 1]
    ELSE IF char = "}" THEN
         [braceCount |-> st.braceCount - 1,
          jsonEnd |-> IF st.braceCount - 1 = 0 THEN i ELSE -1]
    ELSE st

\* a variant of JsonEndScan without the break: the scan goes on to the end of
\* the text
RECURSIVE JsonEndScanNoBreak(_, _, _, _)
JsonEndScanNoBreak(jsonContent, lo, hi, st) ==
    IF lo > hi THEN st
    ELSE IF lo = hi THEN JsonEndStep(jsonContent, lo, st)
    ELSE LET mid == (lo + hi) \div 2
         IN JsonEndScanNoBreak(jsonContent, mid + 1, hi,
                               JsonEndScanNoBreak(jsonContent, lo, mid, st))

RECURSIVE JsonEndScan(_, _, _, _)
JsonEndScan(jsonContent, lo, hi, st) ==
    IF st.jsonEnd # -1 \/ lo > hi THEN st
    ELSE IF lo = hi THEN JsonEndStep(jsonContent, lo, st)
    ELSE LET mid == (lo + hi) \div 2
         IN JsonEndScan(jsonContent, mid + 1, hi, JsonEndScan(jsonContent, lo, mid, st))

\* the position where the brace count returns to zero, -1 when it never does
FindJsonEnd(jsonContent) ==
    JsonEndScan(jsonContent, 0, Len(jsonContent) - 1,
                [braceCount |-> 0, jsonEnd |-> -1]).jsonEnd

\* a variant of extractJSONFromStream for which a candidate is complete only when
\* it ends where the text ends
extractJSONFromStreamAtEnd(content) ==
    LET jsonStart == IndexOf(content, <<"{">>) IN
    IF jsonStart = -1
    THEN [json |-> NoText, isNull |-> TRUE, isComplete |-> FALSE]
    ELSE LET jsonContent == SliceFrom(content, jsonStart)
             jsonEnd == FindJsonEnd(jsonContent)
         IN IF jsonEnd # Len(jsonContent) - 1
            THEN [json |-> jsonContent, isNull |-> FALSE, isComplete |-> FALSE]
            ELSE [json |-> Slice(jsonContent, 0, jsonEnd + 1), isNull |-> FALSE,
                  isComplete |-> TRUE]

\* a variant of extractJSONFromStream that starts at the last '{' of the text
extractJSONFromStreamLastOpen(content) ==
    LET opens == {i \in 0..(Len(content) - 1) : content[i + 1] = "{"} IN
    IF opens = {}
    THEN [json |-> NoText, isNull |-> TRUE, isComplete |-> FALSE]
    ELSE LET jsonContent == SliceFrom(content, CHOOSE i \in opens : \A j \in opens : j <= i)
             jsonEnd == FindJsonEnd(jsonContent)
         IN IF jsonEnd = -1
            THEN [json |-> jsonContent, isNull |-> FALSE, isComplete |-> FALSE]
            ELSE [json |-> Slice(jsonContent, 0, jsonEnd + 1), isNull |-> FALSE,
                  isComplete |-> TRUE]

extractJSONFromStream(content) ==
    LET jsonStart == IndexOf(content, <<"{">>) IN
    IF jsonStart = -1
    THEN [json |-> NoText, isNull |-> TRUE, isComplete |-> FALSE]
    ELSE LET jsonContent == SliceFrom(content, jsonStart)
             jsonEnd == FindJsonEnd(jsonContent)
         IN IF jsonEnd = -1
            THEN [json |-> jsonContent, isNull |-> FALSE, isComplete |-> FALSE]
            ELSE [json |-> Slice(jsonContent, 0, jsonEnd + 1), isNull |-> FALSE,
                  isComplete |-> TRUE]

\* the length of s without its trailing white space
RECURSIVE TrimEnd(_, _)
TrimEnd(s, n) ==
    IF n > 0 /\ s[n] \in WhiteSpace THEN TrimEnd(s, n - 1) ELSE n

\* fixedJson.replace(/,\s*$/, '')
StripTrailingComma(s) ==
    LET n == TrimEnd(s, Len(s)) IN
    IF n > 0 /\ s[n] = "," THEN SubSeq(s, 1, n - 1) ELSE s

\* `"${arrayField}": [`
ArrayMarker(arrayField) == <<"\"">> \o arrayField \o <<"\"", ":", " ", "[">>

CloseBoth == <<"]", "}">>

\* the body of the bracket loop of fixIncompleteJSON; base is
\* arrayStart + arrayField.length + 5
BracketStep(afterArray, i, st, base) ==
    LET char == afterArray[i + 1] IN
    IF char = "[" THEN [st EXCEPT !.bracketCount = @ + 1]
    ELSE IF char = "]" THEN
         IF st.bracketCount - 1 = 0
         THEN [bracketCount |-> 0, lastValidPos |-> base + i, done |-> TRUE]
         ELSE [st EXCEPT !.bracketCount = @ - 1]
    ELSE st

RECURSIVE BracketScan(_, _, _, _, _)
BracketScan(afterArray, lo, hi, st, base) ==
    IF st.done \/ lo > hi THEN st
    ELSE IF lo = hi THEN BracketStep(afterArray, lo, st, base)
    ELSE LET mid == (lo + hi) \div 2
         IN BracketScan(afterArray, mid + 1, hi,
                        BracketScan(afterArray, lo, mid, st, base), base)

\* arrayField = <<>> stands for the absent argument (and for '', falsy as well)
fixIncompleteJSON(jsonStr, arrayField) ==
    LET fixedJson == StripTrailingComma(jsonStr) IN
    IF arrayField # <<>> /\ Includes(fixedJson, ArrayMarker(arrayField))
       /\ ~Includes(fixedJson, CloseBoth)
    THEN LET arrayStart == IndexOf(fixedJson, ArrayMarker(arrayField))
             base == arrayStart + Len(arrayField) + 5
             afterArray == SliceFrom(fixedJson, base)
             scan == BracketScan(afterArray, 0, Len(afterArray) - 1,
                                 [bracketCount |-> 1, lastValidPos |-> base,
                                  done |-> FALSE], base)
         IN IF scan.bracketCount > 0
            THEN Slice(fixedJson, 0, scan.lastValidPos + 1) \o CloseBoth
            ELSE fixedJson
    ELSE fixedJson

\* '"question":'
QuestionKeyColon == <<"\"", "q", "u", "e", "s", "t", "i", "o", "n", "\"", ":">>

\* the placeholder text of extractPartialText
GeneratingText == <<"g", "e", "n", "e", "r", "a", "t", "i", "n", "g">>

RECURSIVE SkipSpace(_, _)
SkipSpace(s, i) ==
    IF i < Len(s) /\ s[i + 1] \in WhiteSpace THEN SkipSpace(s, i + 1) ELSE i

\* ([^"]*)
RECURSIVE UntilQuote(_, _)
UntilQuote(s, i) ==
    IF i < Len(s) /\ s[i + 1] # "\"" THEN UntilQuote(s, i + 1) ELSE i

\* the first match of /"question":\s*"([^"]*)/ at or after p: the capture, or
\* matched = FALSE
RECURSIVE MatchQuestion(_, _)
MatchQuestion(s, p) ==
    LET at == IndexOfFrom(s, QuestionKeyColon, p) IN
    IF at = -1 THEN [matched |-> FALSE, text |-> <<>>]
    ELSE LET q == SkipSpace(s, at + Len(QuestionKeyColon)) IN
         IF q < Len(s) /\ s[q + 1] = "\""
         THEN [matched |-> TRUE, text |-> Slice(s, q + 1, UntilQuote(s, q + 1))]
         ELSE MatchQuestion(s, at + 1)

extractPartialText(partialJson) ==
    LET questionMatch == MatchQuestion(partialJson, 0) IN
    IF questionMatch.matched THEN questionMatch.text ELSE GeneratingText

K_id == <<"i", "d">>

K_type == <<"t", "y", "p", "e">>

K_question == <<"q", "u", "e", "s", "t", "i", "o", "n">>

K_questions == <<"q", "u", "e", "s", "t", "i", "o", "n", "s">>

K_title == <<"t", "i", "t", "l", "e">>

K_createdAt == <<"c", "r", "e", "a", "t", "e", "d", "A", "t">>

K_userAnswer == <<"u", "s", "e", "r", "A", "n", "s", "w", "e", "r">>

K_isPartial == <<"i", "s", "P", "a", "r", "t", "i", "a", "l">>

\* '"questions": [' as extractCompleteQuestions looks for it
QuestionsMarker == ArrayMarker(K_questions)

\* a variant of IsCompleteQuestion that asks for the id alone
IsCompleteQuestionIdOnly(question) == Truthy(Get(question, K_id))

\* question.id && question.type && question.question
IsCompleteQuestion(question) ==
    Truthy(Get(question, K_id)) /\ Truthy(Get(question, K_type))
        /\ Truthy(Get(question, K_question))

\* a closed object is a question when it parses and has id, type and question
CloseQuestion(st, i, parsed) ==
    IF parsed.ok /\ IsCompleteQuestion(parsed.val)
    THEN [st EXCEPT !.braceCount = 0, !.questionStart = -1,
                    !.completeQuestions = Append(@, parsed.val),
                    !.currentPos = i + 1]
    ELSE [st EXCEPT !.braceCount = 0, !.questionStart = -1]

\* a variant of QuestionStep that counts braces inside strings as well
QuestionStepStringBlind(qc, i, st) ==
    LET char == qc[i + 1] IN
    IF char = "{" THEN
         [st EXCEPT !.questionStart = IF st.braceCount = 0 THEN i ELSE @,
                    !.braceCount = @ + 1]
    ELSE IF char = "}" THEN
         IF st.braceCount - 1 = 0 /\ st.questionStart # -1
         THEN CloseQuestion(st, i, JSONParse(Slice(qc, st.questionStart, i + 1)))
         ELSE [st EXCEPT !.braceCount = @ - 1]
    ELSE st

\* the body of the character loop of extractCompleteQuestions
QuestionStep(qc, i, st) ==
    LET char == qc[i + 1] IN
    IF st.escapeNext THEN [st EXCEPT !.escapeNext = FALSE]
    ELSE IF char = "\\" THEN [st EXCEPT !.escapeNext = TRUE]
    ELSE IF char = "\"" THEN [st EXCEPT !.inString = ~@]
    ELSE IF st.inString THEN st
    ELSE IF char = "{" THEN
         [st EXCEPT !.questionStart = IF st.braceCount = 0 THEN i ELSE @,
                    !.braceCount = @ + 1]
    ELSE IF char = "}" THEN
         IF st.braceCount - 1 = 0 /\ st.questionStart # -1
         THEN CloseQuestion(st, i, JSONParse(Slice(qc, st.questionStart, i + 1)))
         ELSE [st EXCEPT !.braceCount = @ - 1]
    ELSE st

\* the loop has no break: the first test only makes the state of the left half
\* be computed before the right half starts
RECURSIVE QuestionScan(_, _, _, _)
QuestionScan(qc, lo, hi, st) ==
    IF st.currentPos < 0 \/ lo > hi THEN st
    ELSE IF lo = hi THEN QuestionStep(qc, lo, st)
    ELSE LET mid == (lo + hi) \div 2
         IN QuestionScan(qc, mid + 1, hi, QuestionScan(qc, lo, mid, st))

QuestionScanStart ==
    [braceCount |-> 0, inString |-> FALSE, questionStart |-> -1, escapeNext |-> FALSE,
     completeQuestions |-> <<>>, currentPos |-> 0]

\* the trailing unclosed object, repaired and parsed, else its question text
PartialQuestion(partialJson, fixed) ==
    IF fixed.ok THEN fixed.val
    ELSE JObj(<<[k |-> K_question, v |-> JStr(extractPartialText(partialJson))]>>)

\* the result of extractCompleteQuestions from the state st the loop ended in
QuestionResult(questionsContent, st) ==
    [completeQuestions |-> st.completeQuestions,
     remainingContent |-> SliceFrom(questionsContent, st.currentPos),
     partialQuestion |->
         IF st.questionStart = -1 THEN Undef
         ELSE PartialQuestion(
                  SliceFrom(questionsContent, st.questionStart),
                  JSONParse(fixIncompleteJSON(
                      SliceFrom(questionsContent, st.questionStart), <<>>)))]

ScanQuestions(questionsContent) ==
    QuestionResult(questionsContent,
        QuestionScan(questionsContent, 0, Len(questionsContent) - 1, QuestionScanStart))

\* a variant of extractCompleteQuestions that starts after the last marker
extractCompleteQuestionsLastMarker(content) ==
    LET marks == {i \in 0..Len(content) : StartsWithAt(content, QuestionsMarker, i)} IN
    IF marks = {}
    THEN [completeQuestions |-> <<>>, remainingContent |-> content,
          partialQuestion |-> Undef]
    ELSE ScanQuestions(
             SliceFrom(content, (CHOOSE i \in marks : \A j \in marks : j <= i) + 14))

extractCompleteQuestions(content) ==
    LET questionsStart == IndexOf(content, QuestionsMarker) IN
    IF questionsStart = -1
    THEN [completeQuestions |-> <<>>, remainingContent |-> content,
          partialQuestion |-> Undef]
    ELSE ScanQuestions(SliceFrom(content, questionsStart + 14))

----------------------------------------------------------------------------
(* types/index.ts and the schema validator *)

T_singleChoice == <<"s","i","n","g","l","e","-","c","h","o","i","c","e">>

T_multipleChoice == <<"m","u","l","t","i","p","l","e","-","c","h","o","i","c","e">>

T_fillBlank == <<"f","i","l","l","-","b","l","a","n","k">>

T_shortAnswer == <<"s","h","o","r","t","-","a","n","s","w","e","r">>

T_codeOutput == <<"c","o","d","e","-","o","u","t","p","u","t">>

T_codeWriting == <<"c","o","d","e","-","w","r","i","t","i","n","g">>

K_options == <<"o","p","t","i","o","n","s">>

K_correctAnswer == <<"c","o","r","r","e","c","t","A","n","s","w","e","r">>

K_correctAnswers == <<"c","o","r","r","e","c","t","A","n","s","w","e","r","s">>

K_referenceAnswer == <<"r","e","f","e","r","e","n","c","e","A","n","s","w","e","r">>

K_code == <<"c","o","d","e">>

K_correctOutput == <<"c","o","r","r","e","c","t","O","u","t","p","u","t">>

K_language == <<"l","a","n","g","u","a","g","e">>

K_referenceCode == <<"r","e","f","e","r","e","n","c","e","C","o","d","e">>

\* enum QuestionType
QuestionTypes ==
    {T_singleChoice, T_multipleChoice, T_fillBlank, T_shortAnswer, T_codeOutput,
     T_codeWriting}

\* the fields each Question variant declares besides id, type and question
VariantFields(type) ==
    CASE type = T_singleChoice -> {K_options, K_correctAnswer}
      [] type = T_multipleChoice -> {K_options, K_correctAnswers}
      [] type = T_fillBlank -> {K_correctAnswers}
      [] type = T_shortAnswer -> {K_referenceAnswer}
      [] type = T_codeOutput -> {K_code, K_correctOutput}
      [] type = T_codeWriting -> {K_language, K_referenceCode}

\* neither undefined nor null
Present(v) == v.t \notin {"undef", "null"}

\* a question the validator accepts: a recognised type tag and the fields of
\* that variant
ValidQuestion(q) ==
    /\ q.t = "obj"
    /\ Present(Get(q, K_id)) /\ Present(Get(q, K_question))
    /\ Get(q, K_type).t = "str" /\ Get(q, K_type).s \in QuestionTypes
    /\ \A f \in VariantFields(Get(q, K_type).s) : Present(Get(q, f))

\* a variant of WithUserAnswer that keeps the userAnswer of the question
WithUserAnswerKept(question) ==
    JObj(IF question.t = "obj" THEN question.o ELSE <<>>)

\* { ...question, userAnswer: undefined }; spreading a primitive gives {}
WithUserAnswer(question) ==
    JObj(PutMember(IF question.t = "obj" THEN question.o ELSE <<>>, K_userAnswer, Undef))

\* quiz.questions.map(question => ({ ...question, userAnswer: undefined }))
MapUserAnswer(questions) == [i \in 1..Len(questions) |-> WithUserAnswer(questions[i])]

\* the schema check of validateQuizJSON on the parsed text: id, title and the
\* questions array are required, every question is checked, and the userAnswer
\* slot is attached
ValidateParsed(parsed) ==
    IF ~parsed.ok \/ parsed.val.t # "obj"
    THEN [isValid |-> FALSE, error |-> "MalformedJSON", quiz |-> Undef]
    ELSE LET questions == Get(parsed.val, K_questions) IN
         IF /\ Present(Get(parsed.val, K_id))
            /\ Present(Get(parsed.val, K_title))
            /\ questions.t = "arr"
            /\ \A i \in 1..Len(questions.a) : ValidQuestion(questions.a[i])
         THEN [isValid |-> TRUE, error |-> "",
               quiz |-> Put(parsed.val, K_questions, JArr(MapUserAnswer(questions.a)))]
         ELSE [isValid |-> FALSE, error |-> "SchemaViolation", quiz |-> Undef]

\* prompt/quizGeneration.ts validateQuizJSON
validateQuizJSON(response) == ValidateParsed(JSONParse(response))

----------------------------------------------------------------------------
(* llm/services/quizGenerationService.ts *)

\* `${prefix}-${Date.now()}`
generateRequestId(prefix, now) == prefix \o <<"-">> \o IntChars(now)

P_quiz == <<"q", "u", "i", "z">>

\* { isValid, error, data: validation.quiz }
ValidationResult(validation) ==
    [isValid |-> validation.isValid, error |-> validation.error, data |-> validation.quiz]

validateQuizResponse(response) == ValidationResult(validateQuizJSON(response))

addUserAnswerFields(quiz) ==
    Put(quiz, K_questions, JArr(MapUserAnswer(Get(quiz, K_questions).a)))

\* the partial quiz of parsePartialQuiz from the parsed repaired text: undefined
\* when it does not parse or lacks title or the questions array
PartialQuizOf(parsed, now) ==
    IF ~parsed.ok THEN Undef
    ELSE IF ~Truthy(Get(parsed.val, K_title)) \/ Get(parsed.val, K_questions).t # "arr"
    THEN Undef
    ELSE JObj(<<
        [k |-> K_id,
         v |-> IF Truthy(Get(parsed.val, K_id)) THEN Get(parsed.val, K_id)
               ELSE JStr(generateRequestId(P_quiz, now))],
        [k |-> K_title, v |-> Get(parsed.val, K_title)],
        [k |-> K_questions, v |-> JArr(MapUserAnswer(Get(parsed.val, K_questions).a))],
        [k |-> K_createdAt,
         v |-> IF Truthy(Get(parsed.val, K_createdAt)) THEN Get(parsed.val, K_createdAt)
               ELSE JNum(now)] >>)

parsePartialQuiz(jsonStr, now) ==
    PartialQuizOf(JSONParse(fixIncompleteJSON(jsonStr, K_questions)), now)

\* getTotalQuestionCount(request)
RECURSIVE SumCounts(_, _)
SumCounts(questionConfigs, i) ==
    IF i > Len(questionConfigs) THEN 0
    ELSE questionConfigs[i].count + SumCounts(questionConfigs, i + 1)

getTotalQuestionCount(request) == SumCounts(request.questionConfigs, 1)

P_partial == <<"p", "a", "r", "t", "i", "a", "l">>

OnProgress(partialData, progress) ==
    [cb |-> "onProgress", partialData |-> partialData, progress |-> progress]

OnQuestion(cb, question, questionIndex, totalQuestions) ==
    [cb |-> cb, question |-> question, questionIndex |-> questionIndex,
     totalQuestions |-> totalQuestions]

\* onQuestionPartial for the question still being written
PartialCalls(partialQuestion, partialText, processed, totalQuestions) ==
    IF Truthy(partialQuestion) /\ partialText # <<>>
    THEN << OnQuestion("onQuestionPartial",
                JObj(<< [k |-> K_id,
                         v |-> JStr(P_partial \o <<"-">> \o IntChars(processed))],
                        [k |-> K_question, v |-> JStr(partialText)],
                        [k |-> K_isPartial, v |-> JBool(TRUE)] >>),
                processed, totalQuestions) >>
    ELSE <<>>

\* a variant of QuestionCallbacks that does not advance processedQuestions
QuestionCallbacksNoAdvance(partialQuiz, questionResult, processedQuestions, totalQuestions) ==
    LET complete == questionResult.completeQuestions
        fresh == IF Len(complete) > processedQuestions
                 THEN Len(complete) - processedQuestions ELSE 0
    IN [result |-> partialQuiz,
        calls |->
            [n \in 1..fresh |->
                OnQuestion("onQuestionComplete", complete[processedQuestions + n],
                           processedQuestions + n - 1, totalQuestions)],
        processedQuestions |-> processedQuestions]

\* the per-question callbacks of parsePartial, in call order, and the new
\* processedQuestions
QuestionCallbacks(partialQuiz, questionResult, processedQuestions, totalQuestions) ==
    LET complete == questionResult.completeQuestions
        fresh == IF Len(complete) > processedQuestions
                 THEN Len(complete) - processedQuestions ELSE 0
        processed == IF Len(complete) > processedQuestions
                     THEN Len(complete) ELSE processedQuestions
    IN [result |-> partialQuiz,
        calls |->
            [n \in 1..fresh |->
                OnQuestion("onQuestionComplete", complete[processedQuestions + n],
                           processedQuestions + n - 1, totalQuestions)]
            \o PartialCalls(questionResult.partialQuestion,
                            extractPartialText(Stringify(questionResult.partialQuestion)),
                            processed, totalQuestions),
        processedQuestions |-> processed]

\* the body of the parsePartial option once the partial quiz is known
ProjectPartial(partialQuiz, json, processedQuestions, totalQuestions) ==
    IF partialQuiz.t = "undef"
    THEN [result |-> Undef, calls |-> <<>>, processedQuestions |-> processedQuestions]
    ELSE QuestionCallbacks(partialQuiz, extractCompleteQuestions(json),
                           processedQuestions, totalQuestions)

\* the parsePartial option generateQuizStream passes: the partial quiz, the
\* per-question callbacks it makes and the new processedQuestions
parsePartial(json, processedQuestions, totalQuestions, now) ==
    ProjectPartial(parsePartialQuiz(json, now), json, processedQuestions, totalQuestions)

----------------------------------------------------------------------------
(* llm/services: executeStreamLLMRequest and handleLLMError *)

\* the message of the Error thrown when the stream ends without a valid document
NoValidJSON == <<"no valid JSON in the response">>

\* handleLLMError: `${operation} failed: ${error.message}`
handleLLMError(message, operation) == <<operation, "failed">> \o message

StreamOperation == "stream quiz generation"

\* a variant of PartialIteration that reports no progress
PartialIterationSilent(partial) ==
    [finalResult |-> JNull, break |-> FALSE, calls |-> partial.calls,
     processedQuestions |-> partial.processedQuestions]

\* the iteration when no candidate was accepted: the partial projection and
\* onProgress(partialResult, 50)
PartialIteration(partial) ==
    [finalResult |-> JNull, break |-> FALSE,
     calls |-> partial.calls \o <<OnProgress(partial.result, 50)>>,
     processedQuestions |-> partial.processedQuestions]

\* the iteration it with what extraction and validation said of the text: the
\* locals isComplete and validation.isValid of the loop body
Judged(it, isComplete, isValid) ==
    [finalResult |-> it.finalResult, break |-> it.break, calls |-> it.calls,
     processedQuestions |-> it.processedQuestions,
     verdict |-> [isComplete |-> isComplete, isValid |-> isValid]]

\* a variant of CandidateIteration that accepts the candidate and reads on
CandidateIterationNoBreak(extraction, validation, processedQuestions, totalQuestions, now) ==
    IF extraction.isComplete /\ validation.isValid /\ Truthy(validation.data)
    THEN [finalResult |-> validation.data, break |-> FALSE,
          calls |-> <<OnProgress(validation.data, 100)>>,
          processedQuestions |-> processedQuestions,
          verdict |-> [isComplete |-> TRUE, isValid |-> TRUE]]
    ELSE Judged(PartialIteration(parsePartial(extraction.json, processedQuestions,
                                              totalQuestions, now)),
                extraction.isComplete, FALSE)

\* a variant of CandidateIteration that leaves the loop on a complete candidate
\* that fails validation
CandidateIterationFailFast(extraction, validation, processedQuestions, totalQuestions, now) ==
    IF extraction.isComplete /\ validation.isValid /\ Truthy(validation.data)
    THEN [finalResult |-> validation.data, break |-> TRUE,
          calls |-> <<OnProgress(validation.data, 100)>>,
          processedQuestions |-> processedQuestions,
          verdict |-> [isComplete |-> TRUE, isValid |-> TRUE]]
    ELSE IF extraction.isComplete
    THEN [finalResult |-> JNull, break |-> TRUE,
          calls |-> <<OnProgress(Undef, 50)>>,
          processedQuestions |-> processedQuestions,
          verdict |-> [isComplete |-> TRUE, isValid |-> FALSE]]
    ELSE Judged(PartialIteration(parsePartial(extraction.json, processedQuestions,
                                              totalQuestions, now)),
                extraction.isComplete, FALSE)

\* the iteration when the text holds a candidate: a complete candidate that
\* validates is the final result, onProgress(finalResult, 100) and `break`;
\* validation is consulted for a complete candidate only
CandidateIteration(extraction, validation, processedQuestions, totalQuestions, now) ==
    IF extraction.isComplete /\ validation.isValid /\ Truthy(validation.data)
    THEN [finalResult |-> validation.data, break |-> TRUE,
          calls |-> <<OnProgress(validation.data, 100)>>,
          processedQuestions |-> processedQuestions,
          verdict |-> [isComplete |-> TRUE, isValid |-> TRUE]]
    ELSE Judged(PartialIteration(parsePartial(extraction.json, processedQuestions,
                                              totalQuestions, now)),
                extraction.isComplete, FALSE)

\* a variant of ExtractedIteration that reports 75 while the text holds no candidate
ExtractedIterationHigh(extraction, processedQuestions, totalQuestions, now) ==
    IF extraction.json # NoText
    THEN CandidateIteration(extraction, validateQuizResponse(extraction.json),
                            processedQuestions, totalQuestions, now)
    ELSE [finalResult |-> JNull, break |-> FALSE,
          calls |-> <<OnProgress(Undef, 75)>>,
          processedQuestions |-> processedQuestions,
          verdict |-> [isComplete |-> FALSE, isValid |-> FALSE]]

\* a variant of ExtractedIteration that reports 50 also without a candidate
ExtractedIterationFlat(extraction, processedQuestions, totalQuestions, now) ==
    IF extraction.json # NoText
    THEN CandidateIteration(extraction, validateQuizResponse(extraction.json),
                            processedQuestions, totalQuestions, now)
    ELSE [finalResult |-> JNull, break |-> FALSE,
          calls |-> <<OnProgress(Undef, 50)>>,
          processedQuestions |-> processedQuestions,
          verdict |-> [isComplete |-> FALSE, isValid |-> FALSE]]

\* the iteration from the extraction result; without a candidate onProgress(undefined, 10)
ExtractedIteration(extraction, processedQuestions, totalQuestions, now) ==
    IF extraction.json # NoText
    THEN CandidateIteration(extraction, validateQuizResponse(extraction.json),
                            processedQuestions, totalQuestions, now)
    ELSE [finalResult |-> JNull, break |-> FALSE,
          calls |-> <<OnProgress(Undef, 10)>>,
          processedQuestions |-> processedQuestions,
          verdict |-> [isComplete |-> FALSE, isValid |-> FALSE]]

\* the body of the for-await loop after the chunk was appended: exactly one
\* onProgress per iteration, after the per-question callbacks of parsePartial
StreamIteration(accumulatedContent, processedQuestions, totalQuestions, now) ==
    ExtractedIteration(extractJSONFromStream(accumulatedContent), processedQuestions,
                       totalQuestions, now)

Resolved(value) == [kind |-> "resolve", value |-> value, error |-> <<>>]

Rejected(error) == [kind |-> "reject", value |-> Undef, error |-> error]

\* a variant of LastAttempt that settles for the repaired partial quiz
LastAttemptBestEffort(extraction, validation) ==
    IF extraction.json # NoText /\ validation.isValid /\ Truthy(validation.data)
    THEN Resolved(addUserAnswerFields(validation.data))
    ELSE IF extraction.json # NoText /\ parsePartialQuiz(extraction.json, 0).t = "obj"
    THEN Resolved(parsePartialQuiz(extraction.json, 0))
    ELSE Rejected(handleLLMError(NoValidJSON, StreamOperation))

\* a variant of LastAttempt that accepts only a candidate whose braces closed
LastAttemptCompleteOnly(extraction, validation) ==
    IF extraction.json # NoText /\ extraction.isComplete
       /\ validation.isValid /\ Truthy(validation.data)
    THEN Resolved(addUserAnswerFields(validation.data))
    ELSE Rejected(handleLLMError(NoValidJSON, StreamOperation))

\* the last attempt after the loop, then the throw that handleLLMError wraps
LastAttempt(extraction, validation) ==
    IF extraction.json # NoText /\ validation.isValid /\ Truthy(validation.data)
    THEN Resolved(addUserAnswerFields(validation.data))
    ELSE Rejected(handleLLMError(NoValidJSON, StreamOperation))

ExtractedLastAttempt(extraction) ==
    LastAttempt(extraction, validateQuizResponse(extraction.json))

\* the code after the loop; generateQuizStream returns addUserAnswerFields(result)
StreamSettle(accumulatedContent, finalResult) ==
    IF Truthy(finalResult)
    THEN Resolved(addUserAnswerFields(finalResult))
    ELSE ExtractedLastAttempt(extractJSONFromStream(accumulatedContent))

\* the catch block of executeStreamLLMRequest for an error the source raised
StreamThrow(message) == Rejected(handleLLMError(message, StreamOperation))

----------------------------------------------------------------------------
(* The increments the language model may deliver *)

\* {"id":"q1","ti
ScenarioA1 ==
    <<"{","\"","i","d","\"",":","\"","q","1","\"",",","\"","t","i">>

\* tle":"Algebra","questions":[{"id":"1","typ
ScenarioA2 ==
    <<"t","l","e","\"",":","\"","A","l","g","e","b","r","a","\"",",","\"","q","u","e","s",
      "t","i","o","n","s","\"",":","[","{","\"","i","d","\"",":","\"","1","\"",",","\"","t",
      "y","p">>

\* e":"single-choice","question":"2+2?","options":["3","4"],"correctAnswer":1}]}
ScenarioA3 ==
    <<"e","\"",":","\"","s","i","n","g","l","e","-","c","h","o","i","c","e","\"",",","\"",
      "q","u","e","s","t","i","o","n","\"",":","\"","2","+","2","?","\"",",","\"","o","p",
      "t","i","o","n","s","\"",":","[","\"","3","\"",",","\"","4","\"","]",",","\"","c","o",
      "r","r","e","c","t","A","n","s","w","e","r","\"",":","1","}","]","}">>

\* not json at all
ScenarioB1 ==
    <<"n","o","t"," ","j","s","o","n"," ","a","t"," ","a","l","l">>

\* {"id":"q1","title":"T","questions": [ 
SpacedHead ==
    <<"{","\"","i","d","\"",":","\"","q","1","\"",",","\"","t","i","t","l","e","\"",":",
      "\"","T","\"",",","\"","q","u","e","s","t","i","o","n","s","\"",":"," ","["," ">>

\* {"id":"1","type":"short-answer","question":"a","referenceAnswer":"x"},
SpacedItem ==
    <<"{","\"","i","d","\"",":","\"","1","\"",",","\"","t","y","p","e","\"",":","\"","s",
      "h","o","r","t","-","a","n","s","w","e","r","\"",",","\"","q","u","e","s","t","i","o",
      "n","\"",":","\"","a","\"",",","\"","r","e","f","e","r","e","n","c","e","A","n","s",
      "w","e","r","\"",":","\"","x","\"","}",",">>

\* {"id":"2","type":"short-answer","question":"b","referenceAnswer":"y"}]}
SpacedLast ==
    <<"{","\"","i","d","\"",":","\"","2","\"",",","\"","t","y","p","e","\"",":","\"","s",
      "h","o","r","t","-","a","n","s","w","e","r","\"",",","\"","q","u","e","s","t","i","o",
      "n","\"",":","\"","b","\"",",","\"","r","e","f","e","r","e","n","c","e","A","n","s",
      "w","e","r","\"",":","\"","y","\"","}","]","}">>

\* {"id":"q1","title":"T","questions":[
CompactHead ==
    <<"{","\"","i","d","\"",":","\"","q","1","\"",",","\"","t","i","t","l","e",
      "\"",":","\"","T","\"",",","\"","q","u","e","s","t","i","o","n","s","\"",
      ":","[">>

Chunks ==
    {ScenarioA1, ScenarioA2, ScenarioA3, ScenarioB1, SpacedHead, SpacedItem, SpacedLast,
     CompactHead}

\* the messages of the errors the transport may raise (LLMClient.chatStream)
SourceErrors == {<<"network error">>}

\* a GenerationRequest: one single-choice and one short-answer question
TheRequest ==
    [subject |-> "algebra", description |-> "",
     questionConfigs |-> << [type |-> T_singleChoice, count |-> 1],
                            [type |-> T_shortAnswer, count |-> 1] >>]

\* the increments one request may consume
MaxChunks == 3

\* the largest value of Date.now()
MaxNow == 1

----------------------------------------------------------------------------
(* stores/timeRecorderStore.ts *)

\* the initial state of useTimeRecorderStore
IdleTimeRecorder ==
    [startTime |-> JNull, endTime |-> JNull, duration |-> JNull, status |-> "idle",
     currentDuration |-> 0, isExpanded |-> FALSE]

startTiming(store, clock) ==
    [store EXCEPT !.startTime = JNum(clock), !.endTime = JNull, !.duration = JNull,
                  !.status = "generating", !.currentDuration = 0]

endTiming(store, clock) ==
    IF ~Truthy(store.startTime) THEN store
    ELSE [store EXCEPT !.endTime = JNum(clock),
                       !.duration = JNum(clock - store.startTime.n),
                       !.status = "completed",
                       !.currentDuration = clock - store.startTime.n]

setError(store) == [store EXCEPT !.status = "error"]

reset(store) == IdleTimeRecorder

\* updates closer than this to the displayed duration are dropped
DurationThreshold == 50

Abs(n) == IF n < 0 THEN -n ELSE n

updateCurrentDuration(store, duration) ==
    IF Abs(duration - store.currentDuration) > DurationThreshold
    THEN [store EXCEPT !.currentDuration = duration]
    ELSE store

toggleExpanded(store) == [store EXCEPT !.isExpanded = ~@]

setExpanded(store, expanded) == [store EXCEPT !.isExpanded = expanded]

\* the switch of syncTimeRecorderWithAppState
SyncStatus(store, generationState, clock) ==
    CASE generationState.status = "generating" ->
            IF Truthy(generationState.startTime)
            THEN [store EXCEPT !.startTime = generationState.startTime,
                               !.endTime = JNull, !.duration = JNull,
                               !.status = "generating",
                               !.currentDuration = clock - generationState.startTime.n]
            ELSE startTiming(store, clock)
      [] generationState.status \in {"complete", "completed"} ->
            IF /\ Truthy(generationState.startTime)
               /\ Truthy(generationState.endTime)
               /\ Truthy(generationState.duration)
            THEN [store EXCEPT !.startTime = generationState.startTime,
                               !.endTime = generationState.endTime,
                               !.duration = generationState.duration,
                               !.status = "completed",
                               !.currentDuration = generationState.duration.n]
            ELSE endTiming(store, clock)
      [] generationState.status = "error" -> setError(store)
      [] OTHER -> IF ~Truthy(store.startTime) THEN reset(store) ELSE store

\* a variant of syncTimeRecorderWithAppState without the guard of completed records
syncTimeRecorderUnprotected(store, generationState, clock) ==
    IF store.status = generationState.status THEN store
    ELSE SyncStatus(store, generationState, clock)

syncTimeRecorderWithAppState(store, generationState, clock) ==
    IF store.status = "completed" /\ Truthy(store.startTime) THEN store
    ELSE IF store.status = generationState.status THEN store
    ELSE SyncStatus(store, generationState, clock)

----------------------------------------------------------------------------
(* State *)

VARIABLES
    generation,          \* useAppStore: the generation slice of the store
    reqState,            \* the promise of generateQuizStream: none, receiving, resolved, rejected
    request,             \* the GenerationRequest of the call
    accumulatedContent,  \* executeStreamLLMRequest: the text received so far
    finalResult,         \* executeStreamLLMRequest: null until a candidate validated
    chunkCount,          \* executeStreamLLMRequest: increments consumed
    increments,          \* history: the increments consumed, in order
    verdicts,            \* history: isComplete and isValid of the loop, per increment
    processedQuestions,  \* generateQuizStream: questions already reported complete
    sourceState,         \* the chatStream generator: idle, open, ended, error, returned
    now,                 \* Date.now()
    calls,               \* history: the callbacks delivered, in order
    outcome,             \* history: the terminal deliveries of the promise, in order
    cancelled,           \* history: the source was closed from outside
    input,               \* the argument of a function applied on its own
    output,              \* its result
    applied,             \* which function was applied, "" before
    requests,            \* the locals of the stream requests running side by side
    timeRecorder,        \* useTimeRecorderStore
    generationActions    \* the module whose startGeneration the store runs

streamVars ==
    <<generation, reqState, request, accumulatedContent, finalResult, chunkCount,
      increments, verdicts, processedQuestions, sourceState, now, calls, outcome,
      cancelled>>

\* the state beside the store and the service
sideVars == <<requests, timeRecorder, generationActions>>

fnVars == <<input, output, applied, sideVars>>

vars == <<streamVars, fnVars>>

NoError == <<>>

\* the initial state of useAppStore, and what resetGeneration restores
IdleGeneration ==
    [status |-> "idle", currentQuiz |-> JNull, error |-> NoError, progress |-> Undef,
     streamingQuestions |-> <<>>, completedQuestionCount |-> 0]

\* array[index] = value of JavaScript: assigning past the end leaves holes
SetAt(array, index, value) ==
    [i \in 1..Max(Len(array), index + 1) |->
        IF i = index + 1 THEN value
        ELSE IF i <= Len(array) THEN array[i] ELSE Undef]

\* the callbacks startGeneration registers, applied to the generation slice
ApplyCall(gen, call) ==
    CASE call.cb = "onProgress" ->
            [gen EXCEPT !.currentQuiz = IF Truthy(call.partialData) THEN call.partialData ELSE @,
                        !.progress = JNum(call.progress)]
      [] call.cb = "onQuestionComplete" ->
            [gen EXCEPT !.streamingQuestions =
                            SetAt(@, call.questionIndex,
                                  Put(call.question, K_isPartial, JBool(FALSE))),
                        !.completedQuestionCount = call.questionIndex + 1]
      [] call.cb = "onQuestionPartial" ->
            [gen EXCEPT !.streamingQuestions =
                            SetAt(@, call.questionIndex,
                                  Put(call.question, K_isPartial, JBool(TRUE)))]

RECURSIVE ApplyCalls(_, _, _)
ApplyCalls(gen, cs, i) ==
    IF i > Len(cs) THEN gen ELSE ApplyCalls(ApplyCall(gen, cs[i]), cs, i + 1)

\* startGeneration after generateQuizStream resolved
CompleteGeneration(quiz) ==
    [status |-> "complete", currentQuiz |-> quiz, error |-> NoError,
     progress |-> JNum(100),
     streamingQuestions |->
         [i \in 1..Len(Get(quiz, K_questions).a) |->
             Put(Get(quiz, K_questions).a[i], K_isPartial, JBool(FALSE))],
     completedQuestionCount |-> Len(Get(quiz, K_questions).a)]

\* createGenerationActions: the store when startGeneration sets out
GeneratingWithLLM ==
    [status |-> "generating", currentQuiz |-> JNull, error |-> NoError,
     progress |-> JNum(0), streamingQuestions |-> <<>>, completedQuestionCount |-> 0]

\* generateWithLLM after generateQuizStream resolved: the slots and the count stay
\* as the callbacks left them
CompleteWithLLM(gen, quiz) ==
    [gen EXCEPT !.status = "complete", !.currentQuiz = quiz, !.progress = JNum(100)]

\* the catch block of startGeneration
FailGeneration(gen, message) == [gen EXCEPT !.status = "error", !.error = message]

\* the promise settles and startGeneration continues with the store
Settle(gen, result) ==
    IF result.kind = "resolve"
    THEN IF generationActions = "createGenerationActions"
         THEN CompleteWithLLM(gen, result.value)
         ELSE CompleteGeneration(result.value)
    ELSE FailGeneration(gen, result.error)

\* the store and the service before any request
InitService ==
    /\ generation = IdleGeneration
    /\ reqState = "none"
    /\ request = TheRequest
    /\ accumulatedContent = <<>>
    /\ finalResult = JNull
    /\ chunkCount = 0
    /\ increments = <<>>
    /\ verdicts = <<>>
    /\ processedQuestions = 0
    /\ sourceState = "idle"
    /\ now = 0
    /\ calls = <<>>
    /\ outcome = <<>>
    /\ cancelled = FALSE

\* no requests run side by side
InitStream ==
    /\ InitService
    /\ requests = <<>>
    /\ timeRecorder = IdleTimeRecorder
    /\ generationActions = "useAppStore"

Init ==
    /\ InitStream
    /\ input = <<>>
    /\ output = <<>>
    /\ applied = ""

\* startGeneration with the LLM configured: the store goes to 'generating' and
\* generateQuizStream opens the stream
StartGeneration ==
    /\ reqState = "none"
    /\ generation' = IF generationActions = "createGenerationActions"
                      THEN GeneratingWithLLM
                      ELSE [generation EXCEPT !.status = "generating", !.error = NoError,
                                              !.streamingQuestions = <<>>,
                                              !.completedQuestionCount = 0]
    /\ reqState' = "receiving"
    /\ sourceState' = "open"
    /\ accumulatedContent' = <<>>
    /\ finalResult' = JNull
    /\ chunkCount' = 0
    /\ increments' = <<>>
    /\ verdicts' = <<>>
    /\ processedQuestions' = 0
    /\ UNCHANGED <<request, now, calls, outcome, cancelled, fnVars>>

\* the promise settles with result: startGeneration continues with the store
SettleRequest(gen, result) ==
    /\ reqState' = IF result.kind = "resolve" THEN "resolved" ELSE "rejected"
    /\ outcome' = Append(outcome, result)
    /\ generation' = Settle(gen, result)

\* the effects of one iteration it on the text content: the callbacks reach the
\* store in call order; on `break` the generator is returned and the promise
\* settles
Iterate(content, it) ==
    /\ accumulatedContent' = content
    /\ chunkCount' = chunkCount + 1
    /\ finalResult' = it.finalResult
    /\ processedQuestions' = it.processedQuestions
    /\ calls' = calls \o it.calls
    /\ verdicts' = Append(verdicts, it.verdict)
    /\ IF it.break
       THEN /\ sourceState' = "returned"
            /\ SettleRequest(ApplyCalls(generation, it.calls, 1),
                             StreamSettle(content, it.finalResult))
       ELSE /\ UNCHANGED <<sourceState, reqState, outcome>>
            /\ generation' = ApplyCalls(generation, it.calls, 1)

\* one iteration of the for-await loop on the next chunk of the source
ReceiveChunk(chunk) ==
    /\ reqState = "receiving" /\ sourceState = "open"
    /\ chunkCount < MaxChunks
    /\ Iterate(accumulatedContent \o chunk,
               StreamIteration(accumulatedContent \o chunk, processedQuestions,
                               getTotalQuestionCount(request), now))
    /\ increments' = Append(increments, chunk)
    /\ UNCHANGED <<request, now, cancelled, fnVars>>

\* a variant of EndOfStream that waits for a further increment: the promise
\* stays pending
EndOfStreamPending ==
    UNCHANGED <<generation, reqState, outcome, request, accumulatedContent, finalResult,
                chunkCount, increments, verdicts, processedQuestions, now, calls,
                fnVars>>

\* the code after the loop, when the generator is done
EndOfStream ==
    /\ SettleRequest(generation, StreamSettle(accumulatedContent, finalResult))
    /\ UNCHANGED <<request, accumulatedContent, finalResult, chunkCount, increments,
                   verdicts, processedQuestions, now, calls, fnVars>>

\* a variant of StreamError that swallows the error: the promise never settles
StreamErrorSwallowed(message) ==
    UNCHANGED <<generation, reqState, outcome, request, accumulatedContent, finalResult,
                chunkCount, increments, verdicts, processedQuestions, now, calls,
                fnVars>>

\* the catch block, when the generator throws
StreamError(message) ==
    /\ SettleRequest(generation, StreamThrow(message))
    /\ UNCHANGED <<request, accumulatedContent, finalResult, chunkCount, increments,
                   verdicts, processedQuestions, now, calls, fnVars>>

\* the model's response ends: reader.read() reports done
SourceEnd ==
    /\ reqState = "receiving" /\ sourceState = "open"
    /\ sourceState' = "ended"
    /\ cancelled' = cancelled
    /\ EndOfStream

\* the transport fails: fetch or reader.read() rejects, chatStream rethrows
SourceError ==
    /\ reqState = "receiving" /\ sourceState = "open"
    /\ sourceState' = "error"
    /\ cancelled' = cancelled
    /\ \E message \in SourceErrors : StreamError(message)

\* the text source is closed from outside while the request is in flight.  The
\* code passes no abort signal and has no cancel path of its own: the reader
\* either reports done or rejects, as for any other end of the response
CancelSource ==
    /\ reqState = "receiving" /\ sourceState = "open"
    /\ cancelled' = TRUE
    /\ \/ sourceState' = "ended" /\ EndOfStream
       \/ sourceState' = "error" /\ \E message \in SourceErrors : StreamError(message)

\* Date.now() advances
Tick ==
    /\ reqState = "receiving"
    /\ now < MaxNow
    /\ now' = now + 1
    /\ UNCHANGED <<generation, reqState, request, accumulatedContent, finalResult,
                   chunkCount, increments, verdicts, processedQuestions, sourceState,
                   calls, outcome, cancelled, fnVars>>

Next ==
    \/ StartGeneration
    \/ \E chunk \in Chunks : ReceiveChunk(chunk)
    \/ SourceEnd
    \/ SourceError
    \/ CancelSource
    \/ Tick

Spec == Init /\ [][Next]_vars

----------------------------------------------------------------------------
(* extractJSONFromStream applied on its own to well-formed object texts *)

\* the longest string value of an input object
MaxStrLen == 1

\* the most members of an input object
MaxMembers == 2

Alphabet == {"{", "}", "x"}

Strings == UNION {[1..n -> Alphabet] : n \in 0..MaxStrLen}

MemberKey(i) == <<"k">> \o NatChars(i)

\* the member values: strings with and without braces, a number, and nested
\* objects and arrays
MemberValues ==
    {JStr(str) : str \in Strings}
        \cup {JNum(1), JObj(<<>>), JArr(<<JStr(<<"x">>)>>),
              JObj(<<[k |-> MemberKey(1), v |-> JStr(<<"x">>)]>>)}

Objects ==
    UNION {{JObj([i \in 1..n |-> [k |-> MemberKey(i), v |-> vals[i]]]) :
               vals \in [1..n -> MemberValues]} : n \in 0..MaxMembers}

\* JSON.stringify of the objects: well-formed texts that start with '{'
ObjectTexts == {Stringify(obj) : obj \in Objects}

InitExtract ==
    /\ InitStream
    /\ input \in ObjectTexts
    /\ output = <<>>
    /\ applied = ""

ApplyExtract ==
    /\ applied = ""
    /\ applied' = "extractJSONFromStream"
    /\ output' = extractJSONFromStream(input)
    /\ UNCHANGED <<streamVars, input, sideVars>>

NextExtract == ApplyExtract

SpecExtract == InitExtract /\ [][NextExtract]_vars

----------------------------------------------------------------------------
(* extractJSONFromStream applied to the proper prefixes of object texts *)

\* a well-formed object text and the length of a proper prefix of it
PrefixInputs(texts) ==
    UNION {{[text |-> t, cut |-> n] : n \in 0..(Len(t) - 1)} : t \in texts}

InitPrefix ==
    /\ InitStream
    /\ input \in PrefixInputs(ObjectTexts)
    /\ output = <<>>
    /\ applied = ""

ApplyExtractPrefix ==
    /\ applied = ""
    /\ applied' = "extractJSONFromStream.prefix"
    /\ output' = extractJSONFromStream(Slice(input.text, 0, input.cut))
    /\ UNCHANGED <<streamVars, input, sideVars>>

SpecPrefix == InitPrefix /\ [][ApplyExtractPrefix]_vars

----------------------------------------------------------------------------
(* fixIncompleteJSON applied to texts made of structural tokens *)

\* the most tokens of an input text
MaxTokens == 3

RepairTokens ==
    {ArrayMarker(K_questions), <<"[">>, <<"]">>, <<"{">>, <<"}">>, <<",">>, <<" ">>,
     <<"x">>}

RECURSIVE Flatten(_, _)
Flatten(tokens, i) ==
    IF i > Len(tokens) THEN <<>> ELSE tokens[i] \o Flatten(tokens, i + 1)

TokenTexts(maxTokens) ==
    {Flatten(ts, 1) : ts \in UNION {[1..n -> RepairTokens] : n \in 0..maxTokens}}

InitRepair ==
    /\ InitStream
    /\ input \in [x : TokenTexts(MaxTokens), f : {<<>>, K_questions}]
    /\ output = <<>>
    /\ applied = ""

\* the repair applied once, and applied again to its own result
ApplyRepair ==
    /\ applied = ""
    /\ applied' = "fixIncompleteJSON"
    /\ output' = [once |-> fixIncompleteJSON(input.x, input.f),
                  twice |-> fixIncompleteJSON(fixIncompleteJSON(input.x, input.f),
                                              input.f)]
    /\ UNCHANGED <<streamVars, input, sideVars>>

SpecRepair == InitRepair /\ [][ApplyRepair]_vars

----------------------------------------------------------------------------
(* The partial projectors: parsePartialQuiz and parsePartialGradingResult,
   with the exceptions of their try blocks made explicit *)

K_totalScore == <<"t","o","t","a","l","S","c","o","r","e">>

K_maxScore == <<"m","a","x","S","c","o","r","e">>

K_results == <<"r","e","s","u","l","t","s">>

K_overallFeedback == <<"o","v","e","r","a","l","l","F","e","e","d","b","a","c","k">>

\* the placeholder of a missing overallFeedback
FeedbackPending == <<"generating the overall feedback...">>

\* the outcome of a call: a returned value or a raised exception
Returned(v) == [raised |-> FALSE, value |-> v]

Raised == [raised |-> TRUE, value |-> Undef]

\* JSON.parse raises a SyntaxError; reading a property of null raises a TypeError
Throws(parsed) == ~parsed.ok \/ parsed.val = JNull

\* the try block of parsePartialQuiz
TryPartialQuizOf(parsed, time) ==
    IF Throws(parsed) THEN Raised ELSE Returned(PartialQuizOf(parsed, time))

TryPartialQuiz(jsonStr, time) ==
    TryPartialQuizOf(JSONParse(fixIncompleteJSON(jsonStr, K_questions)), time)

\* the repair of parsePartialGradingResult: drop a trailing comma, close the results array
GradingFixOf(fixedJson) ==
    IF Includes(fixedJson, ArrayMarker(K_results)) /\ ~Includes(fixedJson, CloseBoth)
    THEN fixedJson \o CloseBoth
    ELSE fixedJson

GradingFix(jsonStr) == GradingFixOf(StripTrailingComma(jsonStr))

PartialGradingOf(parsed) ==
    IF /\ Get(parsed.val, K_totalScore).t = "num"
       /\ Get(parsed.val, K_maxScore).t = "num"
       /\ Get(parsed.val, K_results).t = "arr"
    THEN JObj(<<
        [k |-> K_totalScore, v |-> Get(parsed.val, K_totalScore)],
        [k |-> K_maxScore, v |-> Get(parsed.val, K_maxScore)],
        [k |-> K_results, v |-> Get(parsed.val, K_results)],
        [k |-> K_overallFeedback,
         v |-> IF Truthy(Get(parsed.val, K_overallFeedback))
               THEN Get(parsed.val, K_overallFeedback)
               ELSE JStr(FeedbackPending)] >>)
    ELSE Undef

\* the try block of parsePartialGradingResult
TryPartialGradingOf(parsed) ==
    IF Throws(parsed) THEN Raised ELSE Returned(PartialGradingOf(parsed))

TryPartialGradingResult(jsonStr) == TryPartialGradingOf(JSONParse(GradingFix(jsonStr)))

\* a variant of Catch that lets the exception escape
CatchRethrow(attempt) == attempt

\* catch { return undefined }
Catch(attempt) == IF attempt.raised THEN Returned(Undef) ELSE attempt

parsePartialQuizCall(jsonStr, time) == Catch(TryPartialQuiz(jsonStr, time))

parsePartialGradingResult(jsonStr) == Catch(TryPartialGradingResult(jsonStr))

\* {"totalScore": 5, "maxScore": 10, "results": [{"questionId": "1", "score": 5}], "overallFeedback": "ok"}
GradingText ==
    <<"{","\"","t","o","t","a","l","S","c","o","r","e","\"",":"," ","5",","," ","\"","m","a","x",
      "S","c","o","r","e","\"",":"," ","1","0",","," ","\"","r","e","s","u","l","t","s","\"",":",
      " ","[","{","\"","q","u","e","s","t","i","o","n","I","d","\"",":"," ","\"","1","\"",","," ",
      "\"","s","c","o","r","e","\"",":"," ","5","}","]",","," ","\"","o","v","e","r","a","l","l",
      "F","e","e","d","b","a","c","k","\"",":"," ","\"","o","k","\"","}">>

QuizText == SpacedHead \o SpacedItem \o SpacedLast

Prefixes(text) == {SubSeq(text, 1, n) : n \in 0..Len(text)}

\* texts that are no object: null, a number, a string, an array, prose
NonObjectTexts ==
    {<<"n","u","l","l">>, <<"5">>, <<"\"","s","\"">>, <<"[","1","]">>, ScenarioB1}

PartialTexts == Prefixes(QuizText) \cup Prefixes(GradingText) \cup NonObjectTexts

InitPartial ==
    /\ InitStream
    /\ input \in [jsonStr : PartialTexts, now : 0..MaxNow]
    /\ output = <<>>
    /\ applied = ""

ApplyParsePartialQuiz ==
    /\ applied = ""
    /\ applied' = "parsePartialQuiz"
    /\ output' = parsePartialQuizCall(input.jsonStr, input.now)
    /\ UNCHANGED <<streamVars, input, sideVars>>

ApplyParsePartialGradingResult ==
    /\ applied = ""
    /\ applied' = "parsePartialGradingResult"
    /\ output' = parsePartialGradingResult(input.jsonStr)
    /\ UNCHANGED <<streamVars, input, sideVars>>

NextPartial == ApplyParsePartialQuiz \/ ApplyParsePartialGradingResult

SpecPartial == InitPartial /\ [][NextPartial]_vars

----------------------------------------------------------------------------
(* extractCompleteQuestions applied to a buffer and to the buffer extended *)

\* what the stream may append to a buffer: structural characters, a further
\* question, a closing, a second questions array
Extensions ==
    {<<"}">>, <<"{">>, <<"\"">>, <<"\\">>, CloseBoth, SpacedLast,
     QuestionsMarker \o SpacedLast}

InitSegment ==
    /\ InitStream
    /\ input \in [b : Prefixes(QuizText), x : Extensions]
    /\ output = <<>>
    /\ applied = ""

ApplyExtractQuestions ==
    /\ applied = ""
    /\ applied' = "extractCompleteQuestions"
    /\ output' = [before |-> extractCompleteQuestions(input.b).completeQuestions,
                  after |-> extractCompleteQuestions(input.b \o input.x).completeQuestions]
    /\ UNCHANGED <<streamVars, input, sideVars>>

SpecSegment == InitSegment /\ [][ApplyExtractQuestions]_vars

----------------------------------------------------------------------------
(* llm/services: QuizGradingService.gradeQuizStream *)

\* prompt/quizGrading: the bracket-matching extraction for the grading shape
extractGradingJSONFromStream(content) == extractJSONFromStream(content)

\* prompt/quizGrading: the schema validation for the grading shape
ValidateGradingParsed(parsed) ==
    IF /\ parsed.ok
       /\ Get(parsed.val, K_totalScore).t = "num"
       /\ Get(parsed.val, K_maxScore).t = "num"
       /\ Get(parsed.val, K_results).t = "arr"
       /\ Get(parsed.val, K_overallFeedback).t = "str"
    THEN [isValid |-> TRUE, result |-> parsed.val]
    ELSE [isValid |-> FALSE, result |-> Undef]

validateGradingJSON(response) == ValidateGradingParsed(JSONParse(response))

NoGradingJSON == <<"no valid grading JSON in the response">>

GradeOperation == "stream quiz grading failed"

\* the preview of a candidate that was not accepted
GradePartial(attempt) ==
    [finalResult |-> JNull, break |-> FALSE,
     calls |-> << IF attempt.raised THEN OnProgress(Undef, 25)
                  ELSE OnProgress(attempt.value, 50) >>]

GradeJudged(json, validation) ==
    IF validation.isValid
    THEN [finalResult |-> validation.result, break |-> TRUE,
          calls |-> <<OnProgress(validation.result, 100)>>]
    ELSE GradePartial(parsePartialGradingResult(json))

GradeCandidate(json, isComplete) ==
    IF isComplete THEN GradeJudged(json, validateGradingJSON(json))
    ELSE GradePartial(parsePartialGradingResult(json))

GradeExtracted(extraction) ==
    IF extraction.json = NoText
    THEN [finalResult |-> JNull, break |-> FALSE, calls |-> <<OnProgress(Undef, 10)>>]
    ELSE GradeCandidate(extraction.json, extraction.isComplete)

\* the body of the for-await loop of gradeQuizStream on the text received so far
GradeIteration(content) == GradeExtracted(extractGradingJSONFromStream(content))

\* the throw after the loop, wrapped by the catch block
GradeLastAttempt(extraction, validation) ==
    IF extraction.json # NoText /\ validation.isValid
    THEN Resolved(validation.result)
    ELSE Rejected(<<GradeOperation>> \o NoGradingJSON)

GradeExtractedLastAttempt(extraction) ==
    GradeLastAttempt(extraction, validateGradingJSON(extraction.json))

\* the code after the loop
GradeSettle(content, result) ==
    IF result # JNull THEN Resolved(result)
    ELSE GradeExtractedLastAttempt(extractGradingJSONFromStream(content))

\* the catch block of gradeQuizStream for an error the source raised
GradeThrow(message) == Rejected(<<GradeOperation>> \o message)

\* {"totalScore": 5, "maxScore": 10, "results": [
GradingHead ==
    <<"{","\"","t","o","t","a","l","S","c","o","r","e","\"",":"," ","5",","," ","\"","m","a","x",
      "S","c","o","r","e","\"",":"," ","1","0",","," ","\"","r","e","s","u","l","t","s","\"",":",
      " ","[">>

\* {"questionId": "1", "score": 5}], "overallFeedback": "ok"}
GradingTail ==
    <<"{","\"","q","u","e","s","t","i","o","n","I","d","\"",":"," ","\"","1","\"",","," ","\"","s",
      "c","o","r","e","\"",":"," ","5","}","]",","," ","\"","o","v","e","r","a","l","l","F","e","e",
      "d","b","a","c","k","\"",":"," ","\"","o","k","\"","}">>

\* {"totalScore": 1, "maxScore": 2, "results": [], "overallFeedback": "use }"}
GradingClosingBrace ==
    <<"{","\"","t","o","t","a","l","S","c","o","r","e","\"",":"," ","1",","," ","\"","m","a","x",
      "S","c","o","r","e","\"",":"," ","2",","," ","\"","r","e","s","u","l","t","s","\"",":"," ",
      "[","]",","," ","\"","o","v","e","r","a","l","l","F","e","e","d","b","a","c","k","\"",":"," ",
      "\"","u","s","e"," ","}","\"","}">>

\* {"totalScore": 1, "maxScore": 2, "results": [], "overallFeedback": "use {"}
GradingOpeningBrace ==
    <<"{","\"","t","o","t","a","l","S","c","o","r","e","\"",":"," ","1",","," ","\"","m","a","x",
      "S","c","o","r","e","\"",":"," ","2",","," ","\"","r","e","s","u","l","t","s","\"",":"," ",
      "[","]",","," ","\"","o","v","e","r","a","l","l","F","e","e","d","b","a","c","k","\"",":"," ",
      "\"","u","s","e"," ","{","\"","}">>

GradingChunks ==
    {GradingText, GradingHead, GradingTail, GradingClosingBrace, GradingOpeningBrace,
     ScenarioB1}

\* the complete grading documents among the increments
GradingDocuments == {GradingText, GradingClosingBrace, GradingOpeningBrace}

\* gradeQuizStream is called: chatStream opens the stream
GradeStart ==
    /\ reqState = "none"
    /\ reqState' = "receiving"
    /\ sourceState' = "open"
    /\ UNCHANGED <<generation, request, accumulatedContent, finalResult, chunkCount,
                   increments, verdicts, processedQuestions, now, calls, outcome,
                   cancelled, fnVars>>

GradeSettleRequest(result) ==
    /\ reqState' = IF result.kind = "resolve" THEN "resolved" ELSE "rejected"
    /\ outcome' = Append(outcome, result)

GradeIterate(content, it) ==
    /\ accumulatedContent' = content
    /\ chunkCount' = chunkCount + 1
    /\ finalResult' = it.finalResult
    /\ calls' = calls \o it.calls
    /\ IF it.break
       THEN /\ sourceState' = "returned"
            /\ GradeSettleRequest(GradeSettle(content, it.finalResult))
       ELSE UNCHANGED <<sourceState, reqState, outcome>>

\* one iteration of the for-await loop of gradeQuizStream
GradeReceiveChunk(chunk) ==
    /\ reqState = "receiving" /\ sourceState = "open"
    /\ chunkCount < MaxChunks
    /\ GradeIterate(accumulatedContent \o chunk, GradeIteration(accumulatedContent \o chunk))
    /\ increments' = Append(increments, chunk)
    /\ UNCHANGED <<generation, request, verdicts, processedQuestions, now, cancelled,
                   fnVars>>

\* the response ends: the code after the loop
GradeSourceEnd ==
    /\ reqState = "receiving" /\ sourceState = "open"
    /\ sourceState' = "ended"
    /\ GradeSettleRequest(GradeSettle(accumulatedContent, finalResult))
    /\ UNCHANGED <<generation, request, accumulatedContent, finalResult, chunkCount,
                   increments, verdicts, processedQuestions, now, calls, cancelled,
                   fnVars>>

\* the transport fails: the catch block
GradeSourceError ==
    /\ reqState = "receiving" /\ sourceState = "open"
    /\ sourceState' = "error"
    /\ \E message \in SourceErrors : GradeSettleRequest(GradeThrow(message))
    /\ UNCHANGED <<generation, request, accumulatedContent, finalResult, chunkCount,
                   increments, verdicts, processedQuestions, now, calls, cancelled,
                   fnVars>>

NextGrade ==
    \/ GradeStart
    \/ \E chunk \in GradingChunks : GradeReceiveChunk(chunk)
    \/ GradeSourceEnd
    \/ GradeSourceError

SpecGrade == Init /\ [][NextGrade]_vars

----------------------------------------------------------------------------
(* llm/utils/jsonUtils.ts: validateRequiredFields *)

\* a variant of FieldMissing that takes every falsy value for a missing field
FieldMissingFalsy(obj, field) == ~Truthy(Get(obj, field))

\* !(field in obj) || obj[field] === undefined || obj[field] === null
FieldMissing(obj, field) ==
    ~HasKey(obj, field) \/ Get(obj, field) = Undef \/ Get(obj, field) = JNull

\* the loop over requiredFields, from position i on
RECURSIVE MissingFields(_, _, _)
MissingFields(obj, requiredFields, i) ==
    IF i > Len(requiredFields) THEN <<>>
    ELSE (IF FieldMissing(obj, requiredFields[i]) THEN <<requiredFields[i]>> ELSE <<>>)
             \o MissingFields(obj, requiredFields, i + 1)

RequiredResult(missingFields) ==
    [isValid |-> Len(missingFields) = 0, missingFields |-> missingFields]

validateRequiredFields(obj, requiredFields) ==
    RequiredResult(MissingFields(obj, requiredFields, 1))

\* the longest list of required fields
MaxRequired == 3

\* field names, none of them a name of Object.prototype
FieldNames == {K_id, K_title, K_questions}

\* what an object may hold under a name: nothing, undefined, null, or a value,
\* falsy values among them
Absent == [t |-> "absent"]

FieldStates == {Absent, Undef, JNull, JNum(0), JStr(<<>>), JStr(<<"T">>)}

ObjectOf(states) ==
    JObj((IF states[1] = Absent THEN <<>> ELSE <<[k |-> K_id, v |-> states[1]]>>)
         \o (IF states[2] = Absent THEN <<>> ELSE <<[k |-> K_title, v |-> states[2]]>>))

RequiredObjects == {ObjectOf(states) : states \in [1..2 -> FieldStates]}

RequiredLists == UNION {[1..n -> FieldNames] : n \in 0..MaxRequired}

InitRequired ==
    /\ InitStream
    /\ input \in [obj : RequiredObjects, requiredFields : RequiredLists]
    /\ output = <<>>
    /\ applied = ""

ApplyValidateRequiredFields ==
    /\ applied = ""
    /\ applied' = "validateRequiredFields"
    /\ output' = validateRequiredFields(input.obj, input.requiredFields)
    /\ UNCHANGED <<streamVars, input, sideVars>>

SpecRequired == InitRequired /\ [][ApplyValidateRequiredFields]_vars

----------------------------------------------------------------------------
(* Two stream requests side by side: each call of executeStreamLLMRequest and of
   gradeQuizStream has its own locals *)

\* the increments one of the two requests may consume
MaxPairChunks == 2

PairRequests == {1, 2}

GenerationChunks == {SpacedHead \o SpacedItem, SpacedLast}

GradingPairChunks == {GradingHead, GradingTail}

ChunksOf(kind) == IF kind = "generation" THEN GenerationChunks ELSE GradingPairChunks

\* the locals of a call when the loop starts
NewRequest(kind) ==
    [kind |-> kind, state |-> "receiving", accumulatedContent |-> <<>>,
     finalResult |-> JNull, chunkCount |-> 0, processedQuestions |-> 0,
     increments |-> <<>>, ending |-> "", calls |-> <<>>, outcome |-> <<>>]

\* a variant of AccumulatorOf with one accumulator for every request
AccumulatorShared(rs, r) == rs[1].accumulatedContent

\* let accumulatedContent = '': a local of the call
AccumulatorOf(rs, r) == rs[r].accumulatedContent

IterationOf(kind, content, processed) ==
    IF kind = "generation"
    THEN StreamIteration(content, processed, getTotalQuestionCount(TheRequest), 0)
    ELSE GradeIteration(content)

SettleOf(kind, content, result) ==
    IF kind = "generation" THEN StreamSettle(content, result)
    ELSE GradeSettle(content, result)

ThrowOf(kind, message) ==
    IF kind = "generation" THEN StreamThrow(message) ELSE GradeThrow(message)

\* the promise of the request settles
Finish(req, ending, result) ==
    [req EXCEPT !.ending = ending,
                !.state = IF result.kind = "resolve" THEN "resolved" ELSE "rejected",
                !.outcome = Append(@, result)]

\* the locals of the request after the iteration it on the text content
Advanced(req, chunk, content, it) ==
    [req EXCEPT !.accumulatedContent = content,
                !.chunkCount = @ + 1,
                !.finalResult = it.finalResult,
                !.processedQuestions =
                    IF req.kind = "generation" THEN it.processedQuestions ELSE @,
                !.increments = Append(@, chunk),
                !.calls = @ \o it.calls]

Advance(req, chunk, content, it) ==
    IF it.break
    THEN Finish(Advanced(req, chunk, content, it), "break",
                SettleOf(req.kind, content, it.finalResult))
    ELSE Advanced(req, chunk, content, it)

InitPair ==
    /\ InitService
    /\ input = <<>>
    /\ output = <<>>
    /\ applied = ""
    /\ timeRecorder = IdleTimeRecorder
    /\ generationActions = "useAppStore"
    /\ requests \in {<<NewRequest("generation"), NewRequest(kind)>> :
                        kind \in {"generation", "grading"}}

\* request r reads its next chunk
PairReceive(r, chunk) ==
    /\ requests[r].state = "receiving"
    /\ requests[r].chunkCount < MaxPairChunks
    /\ requests' =
           [requests EXCEPT ![r] =
               Advance(@, chunk, AccumulatorOf(requests, r) \o chunk,
                       IterationOf(@.kind, AccumulatorOf(requests, r) \o chunk,
                                   @.processedQuestions))]
    /\ UNCHANGED <<streamVars, input, output, applied, timeRecorder, generationActions>>

\* the response of request r ends
PairSourceEnd(r) ==
    /\ requests[r].state = "receiving"
    /\ requests' =
           [requests EXCEPT ![r] =
               Finish(@, "end", SettleOf(@.kind, AccumulatorOf(requests, r), @.finalResult))]
    /\ UNCHANGED <<streamVars, input, output, applied, timeRecorder, generationActions>>

\* the transport of request r fails
PairSourceError(r) ==
    /\ requests[r].state = "receiving"
    /\ \E message \in SourceErrors :
           requests' = [requests EXCEPT ![r] = Finish(@, "error", ThrowOf(@.kind, message))]
    /\ UNCHANGED <<streamVars, input, output, applied, timeRecorder, generationActions>>

NextPair ==
    \E r \in PairRequests :
        \/ \E chunk \in ChunksOf(requests[r].kind) : PairReceive(r, chunk)
        \/ PairSourceEnd(r)
        \/ PairSourceError(r)

SpecPair == InitPair /\ [][NextPair]_vars

----------------------------------------------------------------------------
(* The time recorder store and the calls the application makes on it *)

\* the largest value of Date.now() the time recorder sees
MaxClock == 2

GenerationStatuses == {"idle", "generating", "complete", "completed", "error", "paused"}

\* the generation states App passes: the times may be missing
GenerationStates ==
    [status : GenerationStatuses, startTime : {Undef, JNum(0), JNum(1)},
     endTime : {Undef, JNum(2)}, duration : {Undef, JNum(1)}]

\* a call on the store: its argument and the store before it are kept
Called(argument, store) ==
    /\ input' = argument
    /\ output' = timeRecorder
    /\ timeRecorder' = store
    /\ UNCHANGED <<streamVars, requests, generationActions>>

CallStartTiming ==
    /\ applied' = "startTiming"
    /\ Called(<<>>, startTiming(timeRecorder, now))

CallEndTiming ==
    /\ applied' = "endTiming"
    /\ Called(<<>>, endTiming(timeRecorder, now))

CallSetError ==
    /\ applied' = "setError"
    /\ Called(<<>>, setError(timeRecorder))

CallReset ==
    /\ applied' = "reset"
    /\ Called(<<>>, reset(timeRecorder))

CallUpdateCurrentDuration(duration) ==
    /\ applied' = "updateCurrentDuration"
    /\ Called(duration, updateCurrentDuration(timeRecorder, duration))

CallToggleExpanded ==
    /\ applied' = "toggleExpanded"
    /\ Called(<<>>, toggleExpanded(timeRecorder))

CallSetExpanded(expanded) ==
    /\ applied' = "setExpanded"
    /\ Called(expanded, setExpanded(timeRecorder, expanded))

\* App synchronises the time recorder with the generation slice
CallSync(generationState) ==
    /\ applied' = "syncTimeRecorderWithAppState"
    /\ Called(generationState,
              syncTimeRecorderWithAppState(timeRecorder, generationState, now))

\* Date.now() advances
ClockTick ==
    /\ now < MaxClock
    /\ now' = now + 1
    /\ UNCHANGED <<generation, reqState, request, accumulatedContent, finalResult,
                   chunkCount, increments, verdicts, processedQuestions, sourceState,
                   calls, outcome, cancelled, fnVars>>

NextTime ==
    \/ CallStartTiming
    \/ CallEndTiming
    \/ CallSetError
    \/ CallReset
    \/ \E duration \in {0, 100} : CallUpdateCurrentDuration(duration)
    \/ CallToggleExpanded
    \/ \E expanded \in BOOLEAN : CallSetExpanded(expanded)
    \/ \E generationState \in GenerationStates : CallSync(generationState)
    \/ ClockTick

SpecTime == Init /\ [][NextTime]_vars

----------------------------------------------------------------------------
(* extractJSONFromStream applied to every short text of braces and other
   characters *)

\* the longest buffer
MaxBufLen == 5

Buffers == UNION {[1..n -> Alphabet] : n \in 0..MaxBufLen}

InitBuffer ==
    /\ InitStream
    /\ input \in Buffers
    /\ output = <<>>
    /\ applied = ""

ApplyExtractBuffer ==
    /\ applied = ""
    /\ applied' = "extractJSONFromStream.buffer"
    /\ output' = extractJSONFromStream(input)
    /\ UNCHANGED <<streamVars, input, sideVars>>

SpecBuffer == InitBuffer /\ [][ApplyExtractBuffer]_vars

----------------------------------------------------------------------------
(* fixIncompleteJSON applied to complete object texts that hold the array field *)

\* the most elements of the array
MaxElems == 2

\* {"questions": [   and   {"id":1,"questions": [
CompleteHeads ==
    {<<"{">> \o ArrayMarker(K_questions),
     <<"{", "\"", "i", "d", "\"", ":", "1", ",">> \o ArrayMarker(K_questions)}

\* the elements: "a", "[", "]" and {"id":"1"}
ArrayElements ==
    {<<"\"", "a", "\"">>, <<"\"", "[", "\"">>, <<"\"", "]", "\"">>,
     <<"{", "\"", "i", "d", "\"", ":", "\"", "1", "\"", "}">>}

\* ]}   ] }   ],"t":1}   and ] newline }
CompleteTails ==
    {<<"]", "}">>, <<"]", " ", "}">>, <<"]", ",", "\"", "t", "\"", ":", "1", "}">>,
     <<"]", "\n", "}">>}

RECURSIVE JoinElements(_, _)
JoinElements(elements, i) ==
    IF i > Len(elements) THEN <<>>
    ELSE (IF i > 1 THEN <<",">> ELSE <<>>) \o elements[i] \o JoinElements(elements, i + 1)

CompleteTexts(maxElems) ==
    {head \o JoinElements(elements, 1) \o tail :
        head \in CompleteHeads, tail \in CompleteTails,
        elements \in UNION {[1..n -> ArrayElements] : n \in 0..maxElems}}

InitComplete ==
    /\ InitStream
    /\ input \in CompleteTexts(MaxElems)
    /\ output = <<>>
    /\ applied = ""

ApplyRepairComplete ==
    /\ applied = ""
    /\ applied' = "fixIncompleteJSON.complete"
    /\ output' = fixIncompleteJSON(input, K_questions)
    /\ UNCHANGED <<streamVars, input, sideVars>>

SpecComplete == InitComplete /\ [][ApplyRepairComplete]_vars

----------------------------------------------------------------------------
(* fixIncompleteJSON and parsePartialQuiz applied to truncated quiz texts: the
   questions array is open *)

\* the prefixes of text that hold the '[' of the questions array and not its ']'
TruncatedTexts(text) ==
    {SubSeq(text, 1, n) : n \in (Len(SpacedHead) - 1)..(Len(text) - 2)}

InitTruncated ==
    /\ InitStream
    /\ input \in [jsonStr : TruncatedTexts(QuizText), now : 0..MaxNow]
    /\ output = <<>>
    /\ applied = ""

ApplyRepairTruncated ==
    /\ applied = ""
    /\ applied' = "fixIncompleteJSON.truncated"
    /\ output' = fixIncompleteJSON(input.jsonStr, K_questions)
    /\ UNCHANGED <<streamVars, input, sideVars>>

ApplyParsePartialTruncated ==
    /\ applied = ""
    /\ applied' = "parsePartialQuiz.truncated"
    /\ output' = parsePartialQuizCall(input.jsonStr, input.now)
    /\ UNCHANGED <<streamVars, input, sideVars>>

NextTruncated == ApplyRepairTruncated \/ ApplyParsePartialTruncated

SpecTruncated == InitTruncated /\ [][NextTruncated]_vars

----------------------------------------------------------------------------
(* generateQuizStream on a response whose text may carry no quiz id *)

\* {"title":"T","questions": [ 
UntitledIdHead ==
    <<"{","\"","t","i","t","l","e","\"",":","\"","T","\"",",","\"","q","u","e","s","t","i","o","n",
      "s","\"",":"," ","["," ">>

\* the increments of the response: a header without id, a header with id, the
\* questions that follow
IdChunks == {UntitledIdHead, SpacedHead, SpacedItem}

NextId ==
    \/ StartGeneration
    \/ \E chunk \in IdChunks : ReceiveChunk(chunk)
    \/ SourceEnd
    \/ SourceError
    \/ CancelSource
    \/ Tick

SpecId == Init /\ [][NextId]_vars

----------------------------------------------------------------------------
(* extractCompleteQuestions on questions whose text holds braces and quotes *)

\* the most pieces of the text of an input question; a question has at least one
MaxQuoteTokens == 2

\* the pieces of a question text as they stand in the JSON: braces, an escaped
\* quote, an escaped backslash, a letter
QuoteTokens == {<<"{">>, <<"}">>, <<"\\", "\"">>, <<"\\", "\\">>, <<"a">>}

\* {"id":"1","type":"short-answer","question":"
QuotedOpening ==
    <<"{","\"","i","d","\"",":","\"","1","\"",",","\"","t","y","p","e","\"",":","\"","s","h","o",
      "r","t","-","a","n","s","w","e","r","\"",",","\"","q","u","e","s","t","i","o","n","\"",":",
      "\"">>

\* the text of the question object whose question string is made of tokens
QuotedObject(tokens) == QuotedOpening \o Flatten(tokens, 1) \o <<"\"", "}">>

\* {"id":"2","type":"short-answer","question":"b","referenceAnswer":"y"}
NextObject ==
    <<"{","\"","i","d","\"",":","\"","2","\"",",","\"","t","y","p","e","\"",":","\"","s","h","o",
      "r","t","-","a","n","s","w","e","r","\"",",","\"","q","u","e","s","t","i","o","n","\"",":",
      "\"","b","\"",",","\"","r","e","f","e","r","e","n","c","e","A","n","s","w","e","r","\"",":",
      "\"","y","\"","}">>

\* what follows the closed question: nothing yet, a comma, the end of the
\* document, a second question
QuotedTails == {<<>>, <<",">>, CloseBoth, <<",">> \o NextObject, <<",">> \o NextObject \o CloseBoth}

QuoteInputs(maxTokens) ==
    [tokens : UNION {[1..n -> QuoteTokens] : n \in 1..maxTokens}, tail : QuotedTails]

InitQuoted ==
    /\ InitStream
    /\ input \in QuoteInputs(MaxQuoteTokens)
    /\ output = <<>>
    /\ applied = ""

ApplyExtractQuoted ==
    /\ applied = ""
    /\ applied' = "extractCompleteQuestions.quoted"
    /\ output' = extractCompleteQuestions(
                     SpacedHead \o QuotedObject(input.tokens) \o input.tail)
    /\ UNCHANGED <<streamVars, input, sideVars>>

SpecQuoted == InitQuoted /\ [][ApplyExtractQuoted]_vars

----------------------------------------------------------------------------
(* extractCompleteQuestions on arrays that hold objects it must reject *)

\* the most objects of an input array
MaxItems == 3

\* {"id":"1","type":"t","question":"a"}
ItemOne ==
    <<"{","\"","i","d","\"",":","\"","1","\"",",","\"","t","y","p","e","\"",":","\"","t","\"",",",
      "\"","q","u","e","s","t","i","o","n","\"",":","\"","a","\"","}">>

\* {"id":"2","type":"t","question":"b"}
ItemTwo ==
    <<"{","\"","i","d","\"",":","\"","2","\"",",","\"","t","y","p","e","\"",":","\"","t","\"",",",
      "\"","q","u","e","s","t","i","o","n","\"",":","\"","b","\"","}">>

\* {"id":"4","type":"t","question":"c","o":{}}
ItemNested ==
    <<"{","\"","i","d","\"",":","\"","4","\"",",","\"","t","y","p","e","\"",":","\"","t","\"",",",
      "\"","q","u","e","s","t","i","o","n","\"",":","\"","c","\"",",","\"","o","\"",":","{","}","}">>

\* {"type":"t","question":"a"}
ItemNoId ==
    <<"{","\"","t","y","p","e","\"",":","\"","t","\"",",","\"","q","u","e","s","t","i","o","n","\"",
      ":","\"","a","\"","}">>

\* {"id":"","type":"t","question":"a"}
ItemEmptyId ==
    <<"{","\"","i","d","\"",":","\"","\"",",","\"","t","y","p","e","\"",":","\"","t","\"",",","\"",
      "q","u","e","s","t","i","o","n","\"",":","\"","a","\"","}">>

\* {"id":"3","type":"t"}
ItemNoQuestion ==
    <<"{","\"","i","d","\"",":","\"","3","\"",",","\"","t","y","p","e","\"",":","\"","t","\"","}">>

\* {x}
ItemNoJson == <<"{", "x", "}">>

\* the objects of the input arrays, each with what the loop has to do with it
Items ==
    {[text |-> ItemOne, kept |-> TRUE], [text |-> ItemTwo, kept |-> TRUE],
     [text |-> ItemNested, kept |-> TRUE], [text |-> ItemNoId, kept |-> FALSE],
     [text |-> ItemEmptyId, kept |-> FALSE], [text |-> ItemNoQuestion, kept |-> FALSE],
     [text |-> ItemNoJson, kept |-> FALSE]}

ItemLists(maxItems) == UNION {[1..n -> Items] : n \in 1..maxItems}

\* the objects of items from the i-th on, each followed by a comma
RECURSIVE ItemsText(_, _)
ItemsText(items, i) ==
    IF i > Len(items) THEN <<>>
    ELSE items[i].text \o <<",">> \o ItemsText(items, i + 1)

InitItems ==
    /\ InitStream
    /\ input \in ItemLists(MaxItems)
    /\ output = <<>>
    /\ applied = ""

ApplyExtractItems ==
    /\ applied = ""
    /\ applied' = "extractCompleteQuestions.items"
    /\ output' = extractCompleteQuestions(SpacedHead \o ItemsText(input, 1))
    /\ UNCHANGED <<streamVars, input, sideVars>>

SpecItems == InitItems /\ [][ApplyExtractItems]_vars

----------------------------------------------------------------------------
(* The store with the generation actions of createGenerationActions *)

InitActions ==
    /\ InitService
    /\ requests = <<>>
    /\ timeRecorder = IdleTimeRecorder
    /\ generationActions = "createGenerationActions"
    /\ input = <<>>
    /\ output = <<>>
    /\ applied = ""

SpecActions == InitActions /\ [][Next]_vars

----------------------------------------------------------------------------
(* generateQuizStream on a response whose questions carry a userAnswer *)

\* {"id":"1","type":"short-answer","question":"a","referenceAnswer":"x","userAnswer":"z"},
AnsweredItem ==
    <<"{","\"","i","d","\"",":","\"","1","\"",",","\"","t","y","p","e","\"",":","\"","s","h","o",
      "r","t","-","a","n","s","w","e","r","\"",",","\"","q","u","e","s","t","i","o","n","\"",":",
      "\"","a","\"",",","\"","r","e","f","e","r","e","n","c","e","A","n","s","w","e","r","\"",":",
      "\"","x","\"",",","\"","u","s","e","r","A","n","s","w","e","r","\"",":","\"","z","\"","}",",">>

AnswerChunks == {SpacedHead, AnsweredItem, SpacedItem, SpacedLast}

NextAnswer ==
    \/ StartGeneration
    \/ \E chunk \in AnswerChunks : ReceiveChunk(chunk)
    \/ SourceEnd
    \/ SourceError
    \/ CancelSource
    \/ Tick

SpecAnswer == Init /\ [][NextAnswer]_vars

----------------------------------------------------------------------------
(* executeStreamLLMRequest with a parsePartial option that may raise *)

\* what the parsePartial option passed by the caller does on an increment: it
\* raises, it returns undefined, or it is the one generateQuizStream passes
ParsePartialOptions == {"raises", "undefined", "service"}

\* a variant of CaughtIteration where the exception leaves the loop
CaughtIterationEscapes(processed) ==
    [finalResult |-> JNull, break |-> TRUE, calls |-> <<>>,
     processedQuestions |-> processed]

\* catch { onProgress(undefined, 25) }
CaughtIteration(processed) ==
    [finalResult |-> JNull, break |-> FALSE, calls |-> <<OnProgress(Undef, 25)>>,
     processedQuestions |-> processed]

\* try { onProgress(parsePartial(json), 50) } catch { onProgress(undefined, 25) }
TryPartialIteration(option, json, processed, totalQuestions, clock) ==
    CASE option = "raises" -> CaughtIteration(processed)
      [] option = "undefined" ->
            PartialIteration([result |-> Undef, calls |-> <<>>,
                              processedQuestions |-> processed])
      [] option = "service" ->
            PartialIteration(parsePartial(json, processed, totalQuestions, clock))

\* the body of the loop with the parsePartial option behaving as option says
OptionIteration(option, content, processed, totalQuestions, clock) ==
    LET extraction == extractJSONFromStream(content)
        validation == validateQuizResponse(extraction.json)
    IN IF \/ extraction.json = NoText
          \/ extraction.isComplete /\ validation.isValid /\ Truthy(validation.data)
       THEN ExtractedIteration(extraction, processed, totalQuestions, clock)
       ELSE Judged(TryPartialIteration(option, extraction.json, processed,
                                       totalQuestions, clock),
                   extraction.isComplete, FALSE)

\* one iteration of the loop; input keeps what parsePartial did, per increment
ReceiveWithOption(chunk, option) ==
    /\ reqState = "receiving" /\ sourceState = "open"
    /\ chunkCount < MaxChunks
    /\ Iterate(accumulatedContent \o chunk,
               OptionIteration(option, accumulatedContent \o chunk, processedQuestions,
                               getTotalQuestionCount(request), now))
    /\ increments' = Append(increments, chunk)
    /\ input' = Append(input, option)
    /\ UNCHANGED <<request, now, cancelled, output, applied, sideVars>>

OptionChunks == {SpacedHead, SpacedItem, SpacedLast}

NextOption ==
    \/ StartGeneration
    \/ \E chunk \in OptionChunks, option \in ParsePartialOptions :
           ReceiveWithOption(chunk, option)
    \/ SourceEnd
    \/ SourceError

SpecOption == Init /\ [][NextOption]_vars

----------------------------------------------------------------------------
(* The stream request over a source that ends after finitely many increments *)

LiveChunks == {ScenarioB1, SpacedHead, SpacedItem, SpacedLast}

NextLive ==
    \/ StartGeneration
    \/ \E chunk \in LiveChunks : ReceiveChunk(chunk)
    \/ SourceEnd
    \/ SourceError

\* the source delivers no further increment: the response ends or the transport
\* fails.  It says nothing of what the request does then
SourceStops ==
    /\ reqState = "receiving" /\ sourceState = "open"
    /\ sourceState' \in {"ended", "error"}

\* an open source stops after finitely many increments; the work on an increment
\* is one synchronous step of the loop
SpecLive == Init /\ [][NextLive]_vars /\ WF_sourceState(SourceStops)

----------------------------------------------------------------------------
(* extractJSONFromStream on a buffer and on the buffer with more text appended *)

\* the longest buffer and the longest text appended to it
MaxAppendLen == 3

TextsUpTo(maxLen) == UNION {[1..n -> Alphabet] : n \in 0..maxLen}

InitAppend ==
    /\ InitStream
    /\ input \in [b : TextsUpTo(MaxAppendLen), x : TextsUpTo(MaxAppendLen)]
    /\ output = <<>>
    /\ applied = ""

ApplyExtractAppend ==
    /\ applied = ""
    /\ applied' = "extractJSONFromStream.append"
    /\ output' = [before |-> extractJSONFromStream(input.b),
                  after |-> extractJSONFromStream(input.b \o input.x)]
    /\ UNCHANGED <<streamVars, input, sideVars>>

SpecAppend == InitAppend /\ [][ApplyExtractAppend]_vars

----------------------------------------------------------------------------
(* executeStreamLLMRequest on one response text split into increments *)

\* the most increments a response is split into
MaxPieces == 3

\* {"id":"q","title":"T","questions":[]}
EmptyQuiz ==
    <<"{","\"","i","d","\"",":","\"","q","\"",",","\"","t","i","t","l","e","\"",":","\"","T","\"",
      ",","\"","q","u","e","s","t","i","o","n","s","\"",":","[","]","}">>

\* {"id":"{","title":"T","questions":[]}
BraceQuiz ==
    <<"{","\"","i","d","\"",":","\"","{","\"",",","\"","t","i","t","l","e","\"",":","\"","T","\"",
      ",","\"","q","u","e","s","t","i","o","n","s","\"",":","[","]","}">>

\* the response texts: a quiz, a quiz inside other text, a quiz whose id holds
\* an unmatched '{', a quiz after an empty object, no object at all
SplitTexts ==
    {EmptyQuiz, <<"x">> \o EmptyQuiz \o <<" ", "o", "k">>, BraceQuiz,
     <<"{", "}">> \o EmptyQuiz, <<"o", "k">>}

InitSplit ==
    /\ InitStream
    /\ input \in SplitTexts
    /\ output = <<>>
    /\ applied = ""

\* the source delivers the next n characters of the response as one increment;
\* the last increment allowed takes the rest
ReceivePiece(n) ==
    /\ reqState = "receiving" /\ sourceState = "open"
    /\ chunkCount + 1 < MaxPieces \/ Len(accumulatedContent) + n = Len(input)
    /\ Iterate(SubSeq(input, 1, Len(accumulatedContent) + n),
               StreamIteration(SubSeq(input, 1, Len(accumulatedContent) + n),
                               processedQuestions, getTotalQuestionCount(request), now))
    /\ increments' =
           Append(increments,
                  SubSeq(input, Len(accumulatedContent) + 1, Len(accumulatedContent) + n))
    /\ UNCHANGED <<request, now, cancelled, fnVars>>

\* the response ends when all of its text was delivered
SplitEnd ==
    /\ Len(accumulatedContent) = Len(input)
    /\ SourceEnd

NextSplit ==
    \/ StartGeneration
    \/ \E n \in 1..(Len(input) - Len(accumulatedContent)) : ReceivePiece(n)
    \/ SplitEnd

SpecSplit == InitSplit /\ [][NextSplit]_vars

----------------------------------------------------------------------------
(* extractCompleteQuestions on a closed array followed by other fields *)

\* the most objects of a closed input array
MaxArrayItems == 2

\* ]}
TailClose ==
\* ]}
    <<"]","}">>

\* ],"n":"1"}
TailField ==
\* ],"n":"1"}
    <<"]",",","\"","n","\"",":","\"","1","\"","}">>

\* ],"meta":{"a":"1"}}
TailObject ==
\* ],"meta":{"a":"1"}}
    <<"]",",","\"","m","e","t","a","\"",":","{","\"","a","\"",":","\"","1","\"","}","}">>

\* ],"extra":{"id":"9","type":"t","question":"z"}}
TailQuestionLike ==
\* ],"extra":{"id":"9","type":"t","question":"z"}}
    <<"]",",","\"","e","x","t","r","a","\"",":","{","\"","i","d","\"",":","\"","9","\"",",","\"",
      "t","y","p","e","\"",":","\"","t","\"",",","\"","q","u","e","s","t","i","o","n","\"",":","\"",
      "z","\"","}","}">>

\* what may follow the last object of the array: its closing bracket and the
\* rest of the document
ArrayTails == {TailClose, TailField, TailObject, TailQuestionLike}

\* the objects of items from the i-th on, separated by commas
RECURSIVE ArrayText(_, _)
ArrayText(items, i) ==
    IF i > Len(items) THEN <<>>
    ELSE items[i].text \o (IF i < Len(items) THEN <<",">> ELSE <<>>)
             \o ArrayText(items, i + 1)

InitArray ==
    /\ InitStream
    /\ input \in [items : ItemLists(MaxArrayItems), tail : ArrayTails]
    /\ output = <<>>
    /\ applied = ""

ApplyExtractArray ==
    /\ applied = ""
    /\ applied' = "extractCompleteQuestions.array"
    /\ output' = extractCompleteQuestions(
                     SpacedHead \o ArrayText(input.items, 1) \o input.tail)
    /\ UNCHANGED <<streamVars, input, sideVars>>

SpecArray == InitArray /\ [][ApplyExtractArray]_vars

----------------------------------------------------------------------------
(* resetGeneration and resetApp while a stream is in flight *)

\* what a reset leaves alone: the request, its generator and the callbacks that
\* startGeneration registered.  applied records that the reset ran while the
\* request was receiving
ResetStore(name) ==
    /\ applied' = IF reqState = "receiving" THEN name \o ".receiving" ELSE name
    /\ UNCHANGED <<reqState, request, accumulatedContent, finalResult, chunkCount,
                   increments, verdicts, processedQuestions, sourceState, now, calls,
                   outcome, cancelled, input, output, sideVars>>

\* resetGeneration: set() puts the generation slice back to its initial value
ResetGeneration ==
    /\ generation' = IdleGeneration
    /\ ResetStore("resetGeneration")

\* resetApp: set() puts the generation slice back to its initial value, with the
\* answering and grading slices, which the callbacks of a generation never read
ResetApp ==
    /\ generation' = IdleGeneration
    /\ ResetStore("resetApp")

ResetChunks == {SpacedHead, SpacedItem, SpacedLast}

NextReset ==
    \/ StartGeneration
    \/ \E chunk \in ResetChunks : ReceiveChunk(chunk)
    \/ SourceEnd
    \/ SourceError
    \/ ResetGeneration
    \/ ResetApp

SpecReset == Init /\ [][NextReset]_vars

----------------------------------------------------------------------------
(* LLMClient.chatStream: the lines of the response body, read in pieces *)

\* the most reads in which a response body arrives
MaxReads == 2

\* the two bytes of a character outside ASCII and the character they encode
LeadByte == "C3"

ContinuationByte == "A9"

TwoByteChar == "e'"

\* what TextDecoder puts for a byte sequence that is not UTF-8
ReplacementChar == "FFFD"

\* the place of a continuation byte that the lead byte before it consumed
Consumed == "consumed"

IsDecoded(char) == char # Consumed

\* what the decoder makes of the i-th byte: a lead byte and the continuation
\* byte after it are one character, either of them alone is not UTF-8
DecodeAt(bytes, i) ==
    IF bytes[i] = LeadByte
    THEN IF i < Len(bytes) /\ bytes[i + 1] = ContinuationByte
         THEN TwoByteChar ELSE ReplacementChar
    ELSE IF bytes[i] = ContinuationByte
    THEN IF i > 1 /\ bytes[i - 1] = LeadByte THEN Consumed ELSE ReplacementChar
    ELSE bytes[i]

\* the text of the first n bytes
DecodeFirst(bytes, n) == SelectSeq([i \in 1..n |-> DecodeAt(bytes, i)], IsDecoded)

\* decoder.decode(value, { stream: true }) on the bytes held back by the call
\* before followed by value: a lead byte at the end is held back for the next
\* call
Decode(bytes) ==
    IF bytes # <<>> /\ bytes[Len(bytes)] = LeadByte
    THEN [text |-> DecodeFirst(bytes, Len(bytes) - 1), pending |-> <<LeadByte>>]
    ELSE [text |-> DecodeFirst(bytes, Len(bytes)), pending |-> <<>>]

\* buffer.split('\n')
RECURSIVE SplitLines(_)
SplitLines(buffer) ==
    IF IndexOf(buffer, <<"\n">>) = -1 THEN <<buffer>>
    ELSE <<Slice(buffer, 0, IndexOf(buffer, <<"\n">>))>>
             \o SplitLines(SliceFrom(buffer, IndexOf(buffer, <<"\n">>) + 1))

\* String.prototype.trim
Trim(s) ==
    IF \A i \in 1..Len(s) : s[i] \in WhiteSpace THEN <<>>
    ELSE SubSeq(s, Least({i \in 1..Len(s) : s[i] \notin WhiteSpace}),
                TrimEnd(s, Len(s)))

DataPrefix == <<"d", "a", "t", "a", ":", " ">>

DoneMarker == <<"[", "D", "O", "N", "E", "]">>

K_choices == <<"c", "h", "o", "i", "c", "e", "s">>

K_delta == <<"d", "e", "l", "t", "a">>

K_content == <<"c", "o", "n", "t", "e", "n", "t">>

\* value?.[0]
ElementZero(value) ==
    CASE value.t = "arr" -> IF Len(value.a) > 0 THEN value.a[1] ELSE Undef
      [] value.t = "obj" -> Get(value, <<"0">>)
      [] value.t = "str" -> IF Len(value.s) > 0 THEN JStr(<<value.s[1]>>) ELSE Undef
      [] OTHER -> Undef

\* data.choices?.[0]?.delta?.content of the parsed line; reading choices of null
\* throws inside the try and the line is skipped like one that does not parse
DeltaContent(parsed) ==
    IF ~parsed.ok \/ parsed.val.t = "null" THEN Undef
    ELSE Get(Get(ElementZero(Get(parsed.val, K_choices)), K_delta), K_content)

\* if (content) yield content, before what the loop does with the lines after
Yielded(content, rest) ==
    [yielded |-> (IF Truthy(content) THEN <<content>> ELSE <<>>) \o rest.yielded,
     returned |-> rest.returned]

\* the for loop over the complete lines, from the i-th on: what it yields, and
\* whether it returned on the [DONE] line
RECURSIVE ProcessLines(_, _)
ProcessLines(lines, i) ==
    IF i > Len(lines) THEN [yielded |-> <<>>, returned |-> FALSE]
    ELSE IF Trim(lines[i]) = <<>> \/ ~StartsWithAt(Trim(lines[i]), DataPrefix, 0)
    THEN ProcessLines(lines, i + 1)
    ELSE IF SliceFrom(Trim(lines[i]), 6) = DoneMarker
    THEN [yielded |-> <<>>, returned |-> TRUE]
    ELSE Yielded(DeltaContent(JSONParse(SliceFrom(Trim(lines[i]), 6))),
                 ProcessLines(lines, i + 1))

\* the locals after one turn of the loop: the last piece of the split stays in
\* the buffer, the lines before it went through the for loop
ReadResult(st, value, pending, lines, done) ==
    [buffer |-> lines[Len(lines)],
     pending |-> pending,
     yielded |-> st.yielded \o done.yielded,
     sizes |-> Append(st.sizes, Len(value)),
     consumed |-> st.consumed + Len(value),
     state |-> IF done.returned THEN "returned" ELSE "reading"]

ReadLines(st, value, pending, lines) ==
    ReadResult(st, value, pending, lines,
               ProcessLines(SubSeq(lines, 1, Len(lines) - 1), 1))

\* buffer += decoded text; lines = buffer.split('\n')
ReadDecoded(st, value, decoded) ==
    ReadLines(st, value, decoded.pending, SplitLines(st.buffer \o decoded.text))

\* a variant of ReadDecoded that forgets the unfinished line of the read before
ReadDecodedNoBuffer(st, value, decoded) ==
    ReadLines(st, value, decoded.pending, SplitLines(decoded.text))

\* a variant of ReadStep that forgets the unfinished line of the read before
ReadStepNoBuffer(st, value) ==
    ReadDecodedNoBuffer(st, value, Decode(st.pending \o value))

\* one turn of the while loop on the bytes value of reader.read()
ReadStep(st, value) == ReadDecoded(st, value, Decode(st.pending \o value))

\* the locals of chatStream once the reader is open
OpenReader ==
    [buffer |-> <<>>, pending |-> <<>>, yielded |-> <<>>, sizes |-> <<>>, consumed |-> 0,
     state |-> "reading"]

\* data: {"choices":[{"delta":{"content":"a"}}]}
LineA ==
    <<"d","a","t","a",":"," ","{","\"","c","h","o","i","c","e","s","\"",":","[","{","\"","d","e",
      "l","t","a","\"",":","{","\"","c","o","n","t","e","n","t","\"",":","\"","a","\"","}","}","]",
      "}">>

\* data: {"choices":[{"delta":{"content":"b"}}]} with a carriage return
LineB ==
    <<"d","a","t","a",":"," ","{","\"","c","h","o","i","c","e","s","\"",":","[","{","\"","d","e",
      "l","t","a","\"",":","{","\"","c","o","n","t","e","n","t","\"",":","\"","b","\"","}","}","]",
      "}","\r">>

\* data: {"choices":[{"delta":{"content":"E"}}]} where E is the two-byte character
LineE ==
    <<"d","a","t","a",":"," ","{","\"","c","h","o","i","c","e","s","\"",":","[","{","\"","d","e",
      "l","t","a","\"",":","{","\"","c","o","n","t","e","n","t","\"",":","\"",LeadByte,
      ContinuationByte,"\"","}","}","]","}">>

\* data: {"choices":[{"delta":{}}]}
LineRole ==
    <<"d","a","t","a",":"," ","{","\"","c","h","o","i","c","e","s","\"",":","[","{","\"","d","e",
      "l","t","a","\"",":","{","}","}","]","}">>

\* data: {"choices"
LineBad ==
    <<"d","a","t","a",":"," ","{","\"","c","h","o","i","c","e","s","\"">>

\* : ping
LineComment ==
    <<":"," ","p","i","n","g">>

\* data: [DONE]
LineDone ==
    <<"d","a","t","a",":"," ","[","D","O","N","E","]">>

\* the lines a response may hold, each with what chatStream has to yield for it
\* and whether it ends the stream
SseA == [text |-> LineA, yields |-> <<JStr(<<"a">>)>>, done |-> FALSE]

SseB == [text |-> LineB, yields |-> <<JStr(<<"b">>)>>, done |-> FALSE]

SseE == [text |-> LineE, yields |-> <<JStr(<<TwoByteChar>>)>>, done |-> FALSE]

SseRole == [text |-> LineRole, yields |-> <<>>, done |-> FALSE]

SseBad == [text |-> LineBad, yields |-> <<>>, done |-> FALSE]

SseComment == [text |-> LineComment, yields |-> <<>>, done |-> FALSE]

SseBlank == [text |-> <<>>, yields |-> <<>>, done |-> FALSE]

SseDone == [text |-> LineDone, yields |-> <<>>, done |-> TRUE]

\* the responses: one as the API sends it, one that ends without [DONE] and
\* holds lines to skip, one with a line after [DONE]
SseResponses ==
    {<<SseA, SseBlank, SseE, SseDone>>,
     <<SseComment, SseB, SseBad, SseRole>>,
     <<SseA, SseDone, SseB>>}

\* the bytes of the response body: every line ends with a newline
RECURSIVE Body(_, _)
Body(lines, i) ==
    IF i > Len(lines) THEN <<>>
    ELSE lines[i].text \o <<"\n">> \o Body(lines, i + 1)

InitSse ==
    /\ InitStream
    /\ input \in SseResponses
    /\ output = OpenReader
    /\ applied = "chatStream"

\* reader.read() resolves with the next n bytes of the body
ReadBytes(n) ==
    /\ output.state = "reading"
    /\ output.consumed + n <= Len(Body(input, 1))
    /\ (Len(output.sizes) + 1 < MaxReads \/ output.consumed + n = Len(Body(input, 1)))
    /\ output' = ReadStep(output, SubSeq(Body(input, 1), output.consumed + 1,
                                         output.consumed + n))
    /\ UNCHANGED <<streamVars, input, applied, sideVars>>

\* reader.read() resolves with done: the loop breaks and the generator ends
ReaderDone ==
    /\ output.state = "reading"
    /\ output.consumed = Len(Body(input, 1))
    /\ output' = [output EXCEPT !.state = "done"]
    /\ UNCHANGED <<streamVars, input, applied, sideVars>>

NextSse ==
    \/ \E n \in 1..Len(Body(input, 1)) : ReadBytes(n)
    \/ ReaderDone

SpecSse == InitSse /\ [][NextSse]_vars

----------------------------------------------------------------------------
(* useLogStore: the capped list of log entries *)

\* maxLogs of the store, 10000 in the source, scaled down
maxLogs == 3

\* the most addLog calls of a behaviour
MaxAdds == 5

LogLevels == {"info", "error"}

\* Array.prototype.slice(start): a negative start counts from the end
ArraySlice(array, start) ==
    IF start < 0 THEN SubSeq(array, Max(Len(array) + start, 0) + 1, Len(array))
    ELSE SubSeq(array, Min(start, Len(array)) + 1, Len(array))

\* a variant of AddedLogs that cuts the list at the cap from the end
AddedLogsDropNewest(logs, newLog, cap) ==
    IF Len(logs) + 1 > cap THEN SubSeq(Append(logs, newLog), 1, cap)
    ELSE Append(logs, newLog)

\* newLogs of addLog: the entry is appended, then splice(0, length - maxLogs)
\* removes from the front what exceeds the cap
AddedLogs(logs, newLog, cap) ==
    IF Len(logs) + 1 > cap
    THEN SubSeq(Append(logs, newLog), Len(logs) + 1 - cap + 1, Len(logs) + 1)
    ELSE Append(logs, newLog)

\* the store before any call; added counts the addLog calls, before is the list
\* the last call found
EmptyLogStore == [logs |-> <<>>, added |-> 0, before |-> <<>>]

InitLogs ==
    /\ InitStream
    /\ input = <<>>
    /\ output = EmptyLogStore
    /\ applied = ""

\* addLog(entry): the entry gets its id and timestamp, n is its place among the
\* entries ever added
AddLog(level) ==
    /\ output.added < MaxAdds
    /\ output' = [logs |-> AddedLogs(output.logs,
                                     [n |-> output.added + 1, level |-> level], maxLogs),
                  added |-> output.added + 1,
                  before |-> output.logs]
    /\ applied' = "addLog"
    /\ UNCHANGED <<streamVars, input, sideVars>>

\* removeLogs(count)
RemoveLogs(count) ==
    /\ output' = [output EXCEPT !.logs = ArraySlice(output.logs, count),
                                !.before = output.logs]
    /\ applied' = "removeLogs"
    /\ UNCHANGED <<streamVars, input, sideVars>>

\* clearLogs()
ClearLogs ==
    /\ output' = [output EXCEPT !.logs = <<>>, !.before = output.logs]
    /\ applied' = "clearLogs"
    /\ UNCHANGED <<streamVars, input, sideVars>>

NextLogs ==
    \/ \E level \in LogLevels : AddLog(level)
    \/ \E count \in (0 - 2)..(maxLogs + 1) : RemoveLogs(count)
    \/ ClearLogs

SpecLogs == InitLogs /\ [][NextLogs]_vars

----------------------------------------------------------------------------
(* Properties *)

\* the positions in the callback history of the calls of callback cb
CallsOf(cb) == {i \in 1..Len(calls) : calls[i].cb = cb}

\* the increments after which the loop found the candidate complete and valid
Accepted == {n \in 1..Len(verdicts) : verdicts[n].isComplete /\ verdicts[n].isValid}

\* the increments after which the loop found the candidate complete but invalid
Refused == {n \in 1..Len(verdicts) : verdicts[n].isComplete /\ ~verdicts[n].isValid}

\* the loop can read another increment
CanReceive == ENABLED (\E chunk \in Chunks : ReceiveChunk(chunk))

\* the error of a stream that ended without a valid candidate
UnrecoverableStream == handleLLMError(NoValidJSON, StreamOperation)

\* the text after the '[' that opens the questions array, however the key, the
\* colon and the bracket are spaced; the empty text when there is none
QuestionsContent(text) ==
    LET key == IndexOf(text, Quote(K_questions))
        colon == SkipWs(text, key + Len(Quote(K_questions)))
        bracket == SkipWs(text, colon + 1)
    IN IF key # -1 /\ colon < Len(text) /\ text[colon + 1] = ":"
          /\ bracket < Len(text) /\ text[bracket + 1] = "["
       THEN SliceFrom(text, bracket + 1)
       ELSE <<>>

\* the question objects fully closed in text: they parse and have id, type and
\* question
ClosedQuestions(text) == ScanQuestions(QuestionsContent(text)).completeQuestions

\* C1 (as stated): after the three increments of scenario A, onQuestionComplete
\* was called exactly once, with index 0, and the request resolved with a quiz of
\* exactly one single-choice question whose userAnswer is undefined
C1_ScenarioA ==
    increments = <<ScenarioA1, ScenarioA2, ScenarioA3>> =>
        /\ Cardinality(CallsOf("onQuestionComplete")) = 1
        /\ \A i \in CallsOf("onQuestionComplete") : calls[i].questionIndex = 0
        /\ reqState = "resolved"
        /\ Len(outcome) = 1 /\ outcome[1].kind = "resolve"
        /\ Get(outcome[1].value, K_questions).t = "arr"
        /\ Len(Get(outcome[1].value, K_questions).a) = 1
        /\ Get(Get(outcome[1].value, K_questions).a[1], K_type) = JStr(T_singleChoice)
        /\ Get(Get(outcome[1].value, K_questions).a[1], K_userAnswer) = Undef

\* C2: once an increment leaves a complete candidate that passes validation, the
\* last callback delivered is the one onProgress(final value, 100), the request
\* is resolved, the source is returned and no further increment can be read
C2_StopsAtFirstValid ==
    Accepted # {} =>
        /\ Accepted = {chunkCount}
        /\ Len(increments) = chunkCount
        /\ finalResult = validateQuizResponse(
                              extractJSONFromStream(accumulatedContent).json).data
        /\ calls[Len(calls)] = OnProgress(finalResult, 100)
        /\ Cardinality({i \in CallsOf("onProgress") : calls[i].progress = 100}) = 1
        /\ reqState = "resolved"
        /\ sourceState = "returned"
        /\ ~CanReceive

C2_Witness ==
    /\ increments = <<SpacedHead, SpacedLast>>
    /\ Accepted = {2}
    /\ calls[Len(calls)] = OnProgress(finalResult, 100)
    /\ chunkCount < MaxChunks

\* C3: an increment that leaves a complete candidate failing validation does not
\* end the request, which goes on reading; a request that fails without an error
\* raised by the source fails only once the source has ended and no candidate
\* ever validated
C3_InvalidCandidateNotTerminal ==
    /\ (chunkCount \in Refused /\ sourceState \notin {"ended", "error"}) =>
           /\ reqState = "receiving" /\ sourceState = "open" /\ outcome = <<>>
           /\ generation.status = "generating"
    /\ (reqState = "rejected" /\ sourceState # "error") =>
           /\ sourceState = "ended"
           /\ Accepted = {}
           /\ finalResult = JNull
           /\ \A i \in CallsOf("onProgress") : calls[i].progress # 100

C3_Witness ==
    /\ increments = <<SpacedItem, SpacedItem>>
    /\ Refused = {1, 2}
    /\ sourceState = "ended"
    /\ reqState = "rejected"

\* C4: when the source has ended and no increment left a candidate that passes
\* validation (scenario B: the one increment 'not json at all'), the
\* request is rejected once with the no-valid-JSON error, no value is delivered
\* and the store holds that error
C4_NeverValidRejects ==
    (sourceState = "ended" /\ Accepted = {}) =>
        /\ reqState = "rejected"
        /\ outcome = <<Rejected(UnrecoverableStream)>>
        /\ generation.status = "error"
        /\ generation.error = UnrecoverableStream

C4_Witness ==
    /\ increments = <<ScenarioB1>>
    /\ sourceState = "ended"
    /\ outcome = <<Rejected(UnrecoverableStream)>>

\* C5 (as stated): a request whose source was closed from outside after some
\* text and before any candidate validated is rejected with an error that is
\* not the no-valid-JSON error of an unrecoverable stream, and reads no further
\* increment
C5_CancelledKind ==
    (cancelled /\ chunkCount > 0 /\ finalResult = JNull) =>
        /\ Len(outcome) = 1
        /\ outcome[1].kind = "reject"
        /\ outcome[1].error # UnrecoverableStream
        /\ ~CanReceive

\* C6: a request never has more than one terminal outcome, has exactly one once
\* the source has ended, raised an error or been returned, and that outcome is
\* either the quiz that passed validation or an error, not both
C6_OneTerminalOutcome ==
    /\ Len(outcome) <= 1
    /\ sourceState \in {"ended", "error", "returned"} => Len(outcome) = 1
    /\ Len(outcome) = 1 =>
          \/ /\ outcome[1].kind = "resolve" /\ reqState = "resolved"
             /\ outcome[1].error = <<>>
             /\ Accepted = {chunkCount}
             /\ outcome[1].value = addUserAnswerFields(finalResult)
          \/ /\ outcome[1].kind = "reject" /\ reqState = "rejected"
             /\ outcome[1].error # <<>>
             /\ outcome[1].value = Undef

C6_Witness ==
    /\ sourceState = "error"
    /\ chunkCount > 0
    /\ Len(outcome) = 1
    /\ outcome[1].kind = "reject"

\* C7: no two onQuestionComplete calls of a request carry the same index
C7_CompleteOncePerIndex ==
    \A i, j \in CallsOf("onQuestionComplete") :
        i # j => calls[i].questionIndex # calls[j].questionIndex

C7_Witness ==
    /\ chunkCount = 3
    /\ {calls[i].questionIndex : i \in CallsOf("onQuestionComplete")} = {0, 1}
    /\ Cardinality(CallsOf("onQuestionComplete")) = 2

\* C8 (as stated): while the document is incomplete, after each increment every
\* question object closed in the accumulated text has been delivered through
\* onQuestionComplete
C8_ClosedQuestionsDelivered ==
    (reqState = "receiving" /\ chunkCount > 0
        /\ ~extractJSONFromStream(accumulatedContent).isComplete) =>
        Cardinality(CallsOf("onQuestionComplete"))
            = Len(ClosedQuestions(accumulatedContent))

\* C9: the number of onProgress calls equals the number of increments consumed,
\* and the last callback delivered for an increment is its onProgress
C9_OneProgressPerIncrement ==
    /\ Cardinality(CallsOf("onProgress")) = chunkCount
    /\ chunkCount > 0 => calls[Len(calls)].cb = "onProgress"

C9_Witness ==
    /\ chunkCount = 3
    /\ Cardinality(CallsOf("onProgress")) = 3
    /\ {calls[i].progress : i \in CallsOf("onProgress")} = {10, 50}

\* C10 (as stated): for every well-formed object text that starts with '{',
\* braces inside string values included, extractJSONFromStream returns the whole
\* text as a complete candidate
C10_BalanceForAllObjects ==
    (applied = "extractJSONFromStream" /\ JSONParse(input).ok /\ input[1] = "{") =>
        output.isComplete /\ output.json = input

\* C11 (as stated): for every proper prefix of a well-formed object text,
\* extractJSONFromStream reports the candidate incomplete
C11_PrefixIncomplete ==
    applied = "extractJSONFromStream.prefix" => ~output.isComplete

\* C12 (as stated): repairing a repaired text changes nothing, with and without
\* an array field
C12_RepairIdempotent ==
    applied = "fixIncompleteJSON" => output.twice = output.once

\* C13: parsePartialQuiz and parsePartialGradingResult never raise, whatever the
\* text: prose, the empty text, JSON that is no object, truncated JSON
C13_PartialNeverRaises ==
    applied \in {"parsePartialQuiz", "parsePartialGradingResult"} => ~output.raised

\* C13 witness: the projector swallowed the TypeError of reading a property of null
C13_Witness ==
    /\ applied = "parsePartialGradingResult"
    /\ input.jsonStr = <<"n","u","l","l">>
    /\ output = Returned(Undef)

\* C14: every question extractCompleteQuestions reports for a buffer b is reported,
\* identical and at the same index, for every extension of b
C14_SegmenterMonotonic ==
    applied = "extractCompleteQuestions" =>
        \A i \in 1..Len(output.before) :
            i <= Len(output.after) /\ output.after[i] = output.before[i]

\* C14 witness: the buffer holds one complete question and the extension adds a second
C14_Witness ==
    /\ applied = "extractCompleteQuestions"
    /\ Len(output.before) = 1
    /\ Len(output.after) = 2
    /\ output.after[1] = output.before[1]

\* C15 (as stated): when a complete valid grading document arrives as a single
\* increment, gradeQuizStream completes on that increment: exactly one progress
\* event (the result, 100) and a resolution whose totalScore, maxScore, results and
\* overallFeedback are those of the document
C15_GradingRoundTrip ==
    (Len(increments) = 1 /\ increments[1] \in GradingDocuments
        /\ reqState \in {"receiving", "resolved", "rejected"}) =>
        /\ reqState = "resolved"
        /\ Len(calls) = 1
        /\ calls[1] = OnProgress(outcome[1].value, 100)
        /\ \A key \in {K_totalScore, K_maxScore, K_results, K_overallFeedback} :
            Get(outcome[1].value, key) = Get(JSONParse(increments[1]).val, key)

\* the object holds nothing, undefined or null under the name
AbsentOrNullish(obj, field) ==
    \A i \in 1..Len(obj.o) : obj.o[i].k = field => obj.o[i].v \in {Undef, JNull}

RECURSIVE RunAlone(_, _, _)
RunAlone(req, incs, i) ==
    IF i > Len(incs) THEN req
    ELSE RunAlone(Advance(req, incs[i], req.accumulatedContent \o incs[i],
                          IterationOf(req.kind, req.accumulatedContent \o incs[i],
                                      req.processedQuestions)),
                  incs, i + 1)

\* the terminal deliveries of the run alone that ended the way req ended
OutcomeAlone(req, alone) ==
    IF req.ending = "end"
    THEN <<SettleOf(req.kind, alone.accumulatedContent, alone.finalResult)>>
    ELSE IF req.ending = "error"
    THEN {<<ThrowOf(req.kind, message)>> : message \in SourceErrors}
    ELSE alone.outcome

SameAsAlone(req, alone) ==
    /\ req.calls = alone.calls
    /\ req.processedQuestions = alone.processedQuestions
    /\ IF req.ending = "error" THEN req.outcome \in OutcomeAlone(req, alone)
       ELSE req.outcome = OutcomeAlone(req, alone)

\* C17: of two requests running side by side, under every interleaving of their
\* increments, each emits the progress events, the per-question callbacks and the
\* terminal outcome it emits when it runs alone on the same increments
C17_RequestsIndependent ==
    \A r \in DOMAIN requests :
        SameAsAlone(requests[r],
                    RunAlone(NewRequest(requests[r].kind), requests[r].increments, 1))

\* C17 witness: a generation and a grading both consumed two increments and both
\* resolved, the generation after its per-question callbacks
C17_Witness ==
    /\ DOMAIN requests = PairRequests
    /\ requests[1].state = "resolved" /\ requests[1].ending = "break"
    /\ \E i \in 1..Len(requests[1].calls) : requests[1].calls[i].cb = "onQuestionComplete"
    /\ requests[2].kind = "grading"
    /\ requests[2].state = "resolved" /\ Len(requests[2].increments) = 2

TimeFields == {"startTime", "endTime", "duration", "status", "currentDuration"}

\* C18: once the time recorder has status 'completed' and a startTime, a call of
\* syncTimeRecorderWithAppState, with any generation status and any times, leaves
\* startTime, endTime, duration, status and currentDuration as they were
C18_CompletedRecordProtected ==
    (/\ applied = "syncTimeRecorderWithAppState"
     /\ output.status = "completed"
     /\ output.startTime # JNull) =>
        \A field \in TimeFields : timeRecorder[field] = output[field]

\* C18 witness: a completed record was synchronised with a generation that is
\* running again with times of its own, and kept its times
C18_Witness ==
    /\ applied = "syncTimeRecorderWithAppState"
    /\ output.status = "completed"
    /\ output.startTime # JNull
    /\ input.status = "generating"
    /\ input.startTime = JNum(1)
    /\ output.startTime # JNum(1)
    /\ timeRecorder = output

\* the opening braces less the closing braces among the first n characters of text
Excess(text, n) ==
    Cardinality({i \in 1..n : text[i] = "{"}) - Cardinality({i \in 1..n : text[i] = "}"})

\* what C19 says of the text from the first opening brace on
CandidateOf(tail) ==
    LET zeros == {n \in 1..Len(tail) : Excess(tail, n) = 0} IN
    IF zeros = {}
    THEN [json |-> tail, isNull |-> FALSE, isComplete |-> FALSE]
    ELSE [json |-> SubSeq(tail, 1, CHOOSE n \in zeros : \A m \in zeros : n <= m),
          isNull |-> FALSE, isComplete |-> TRUE]

\* C19: extractJSONFromStream returns json = null and isComplete = false for a text
\* without '{'; otherwise its candidate starts at the first '{' and is the shortest
\* prefix of the text from there on in which the count of '{' less the count of '}'
\* is back at zero (isComplete = true), or all of that text when the count never
\* gets back to zero (isComplete = false)
C19_ExtractionBoundaries ==
    applied = "extractJSONFromStream.buffer" =>
        LET opens == {i \in 1..Len(input) : input[i] = "{"} IN
        IF opens = {}
        THEN output.isNull /\ ~output.isComplete
        ELSE output =
                 CandidateOf(SubSeq(input, CHOOSE i \in opens : \A j \in opens : i <= j,
                                    Len(input)))

\* C19 witness: the candidate is a nested object cut out of a longer text
C19_Witness ==
    /\ applied = "extractJSONFromStream.buffer"
    /\ input = <<"x", "{", "{", "}", "}">>
    /\ output = [json |-> <<"{", "{", "}", "}">>, isNull |-> FALSE, isComplete |-> TRUE]

\* the k-th onProgress call delivered
ProgressCall(k) ==
    calls[CHOOSE i \in CallsOf("onProgress") :
              Cardinality({j \in CallsOf("onProgress") : j <= i}) = k]

\* C20: an increment whose text holds no '{' is reported as (undefined, 10); an
\* increment whose candidate is not accepted, incomplete or complete and invalid,
\* is reported as (the value of the partial projector, 50); in both cases the
\* request goes on receiving.  Stated of the latest increment, in every state;
\* the value is compared while Date.now() has not advanced since the request
\* started
C20_ProgressOfUnacceptedIncrement ==
    (chunkCount > 0 /\ chunkCount \notin Accepted) =>
        /\ IF Includes(accumulatedContent, <<"{">>)
           THEN /\ calls[Len(calls)].cb = "onProgress"
                /\ calls[Len(calls)].progress = 50
                /\ now = 0 =>
                       calls[Len(calls)].partialData =
                           parsePartialQuiz(
                               extractJSONFromStream(accumulatedContent).json, now)
           ELSE calls[Len(calls)] = OnProgress(Undef, 10)
        /\ sourceState = "open" => reqState = "receiving" /\ outcome = <<>>

\* C20 witness: the first increment held no '{' and was reported 10, the second
\* left a complete candidate that failed validation and was reported 50 with no
\* partial value, and the request is still receiving
C20_Witness ==
    /\ chunkCount = 2
    /\ increments = <<ScenarioB1, SpacedItem>>
    /\ Refused = {2}
    /\ ProgressCall(1) = OnProgress(Undef, 10)
    /\ ProgressCall(2) = OnProgress(Undef, 50)
    /\ reqState = "receiving"

\* C21 (as stated): fixIncompleteJSON returns unchanged every well-formed object
\* text that holds the array field, compact or spread over lines, also when
\* strings inside the array hold '[' or ']'
C21_RepairKeepsComplete ==
    (/\ applied = "fixIncompleteJSON.complete"
     /\ JSONParse(input).ok
     /\ Includes(input, ArrayMarker(K_questions))) =>
        output = input

\* C22 (as stated): for a truncated candidate that holds the array marker and whose
\* array is open, fixIncompleteJSON returns the input without its trailing comma
\* followed by ']' and '}', every other character kept
C22_RepairAppendsClosers ==
    applied = "fixIncompleteJSON.truncated" =>
        output = StripTrailingComma(input.jsonStr) \o CloseBoth

\* C23 (as stated): for a truncated quiz text with its header fields in which
\* k >= 1 questions are closed, parsePartialQuiz returns a quiz whose questions are
\* exactly those k questions in document order
C23_PartialQuizKeepsClosed ==
    (/\ applied = "parsePartialQuiz.truncated"
     /\ Len(ClosedQuestions(input.jsonStr)) >= 1) =>
        /\ output.value.t = "obj"
        /\ Get(output.value, K_questions) =
               JArr(MapUserAnswer(ClosedQuestions(input.jsonStr)))

\* the ids of the partial quizzes delivered to onProgress so far
PartialIds ==
    {Get(calls[i].partialData, K_id) :
        i \in {j \in CallsOf("onProgress") : calls[j].partialData.t = "obj"}}

\* C24 (as stated): the partial quizzes delivered during one stream all carry the
\* same non-empty id, the id of the text or else a generated id that stays the
\* same from one progress event to the next
C24_PartialQuizIdStable ==
    /\ Cardinality(PartialIds) <= 1
    /\ \A id \in PartialIds : Truthy(id)

\* the characters a question text made of tokens stands for
RECURSIVE Decoded(_, _)
Decoded(tokens, i) ==
    IF i > Len(tokens) THEN <<>>
    ELSE <<tokens[i][Len(tokens[i])]>> \o Decoded(tokens, i + 1)

\* the questions closed in the text of an input of SpecQuoted
QuotedExpected(in) ==
    <<JSONParse(QuotedObject(in.tokens)).val>>
        \o IF Includes(in.tail, NextObject) THEN <<JSONParse(NextObject).val>> ELSE <<>>

\* C25: a closed question whose text holds '{', '}', escaped quotes or escaped
\* backslashes inside its strings is reported as one complete item, the parse of
\* exactly that object's text, with the question text the characters stand for;
\* the questions after it are segmented as usual
C25_SegmenterStringAware ==
    applied = "extractCompleteQuestions.quoted" =>
        /\ output.completeQuestions = QuotedExpected(input)
        /\ Get(output.completeQuestions[1], K_question) = JStr(Decoded(input.tokens, 1))
        /\ Get(output.completeQuestions[1], K_id) = JStr(<<"1">>)

\* C25 witness: the question text is \"} , an escaped quote and a closing brace,
\* a second question follows, and both are reported
C25_Witness ==
    /\ applied = "extractCompleteQuestions.quoted"
    /\ input.tokens = << <<"\\", "\"">>, <<"}">> >>
    /\ input.tail = <<",">> \o NextObject
    /\ Len(output.completeQuestions) = 2
    /\ Get(output.completeQuestions[1], K_question) = JStr(<<"\"", "}">>)

\* the parsed objects of the items to keep, from the i-th on, in text order
RECURSIVE KeptItems(_, _)
KeptItems(items, i) ==
    IF i > Len(items) THEN <<>>
    ELSE (IF items[i].kept THEN <<JSONParse(items[i].text).val>> ELSE <<>>)
             \o KeptItems(items, i + 1)

\* C26: an object that closes at depth zero after the marker is reported if and
\* only if it parses and has a non-empty id, type and question; a rejected object
\* is dropped, the call still returns a result, and the objects after it are
\* reported in text order
C26_RejectedObjectsDropped ==
    applied = "extractCompleteQuestions.items" =>
        /\ \A i \in 1..Len(input) :
               input[i].kept <=>
                   /\ JSONParse(input[i].text).ok
                   /\ \A key \in {K_id, K_type, K_question} :
                          /\ Get(JSONParse(input[i].text).val, key).t = "str"
                          /\ Get(JSONParse(input[i].text).val, key).s # <<>>
        /\ output.completeQuestions = KeptItems(input, 1)
        /\ output.partialQuestion = Undef

\* C26 witness: an unparsable object and an object without id stand before and
\* between two questions, and the two questions are reported in order
C26_Witness ==
    /\ applied = "extractCompleteQuestions.items"
    /\ input = <<[text |-> ItemNoJson, kept |-> FALSE], [text |-> ItemTwo, kept |-> TRUE],
                 [text |-> ItemNoId, kept |-> FALSE]>>
    /\ Len(output.completeQuestions) = 1
    /\ Get(output.completeQuestions[1], K_id) = JStr(<<"2">>)

\* the slots of the streaming list for the questions of quiz
FinalSlots(quiz) ==
    [i \in 1..Len(Get(quiz, K_questions).a) |->
        Put(Get(quiz, K_questions).a[i], K_isPartial, JBool(FALSE))]

\* C27 (as stated): when the streaming generation is 'complete' the streaming
\* list has exactly one slot per question of the final quiz, in quiz order, each
\* with isPartial = false, and completedQuestionCount is the number of questions
C27_CompleteSlots ==
    generation.status = "complete" =>
        /\ generation.streamingQuestions = FinalSlots(generation.currentQuiz)
        /\ generation.completedQuestionCount = Len(Get(generation.currentQuiz, K_questions).a)

\* the members of a question other than userAnswer, in their order
OtherFields(question) == SelectSeq(question.o, LAMBDA m : m.k # K_userAnswer)

\* the quiz returned differs from the document of the text only by userAnswer
OnlyUserAnswerReset(quiz, document) ==
    /\ Get(quiz, K_id) = Get(document, K_id)
    /\ Get(quiz, K_title) = Get(document, K_title)
    /\ Len(Get(quiz, K_questions).a) = Len(Get(document, K_questions).a)
    /\ \A i \in 1..Len(Get(quiz, K_questions).a) :
           /\ Get(Get(quiz, K_questions).a[i], K_userAnswer) = Undef
           /\ OtherFields(Get(quiz, K_questions).a[i])
                  = OtherFields(Get(document, K_questions).a[i])

\* C28: every question of the quiz generateQuizStream returns has userAnswer
\* undefined, also when the text of the model gave it a userAnswer; the other
\* fields of each question, the id and the title of the quiz and the order of
\* the questions are those of the text
C28_UserAnswerReset ==
    reqState = "resolved" =>
        OnlyUserAnswerReset(
            outcome[1].value,
            JSONParse(extractJSONFromStream(accumulatedContent).json).val)

\* C28 witness: the text gave the first question the userAnswer "z" and the quiz
\* returned has it undefined
C28_Witness ==
    /\ reqState = "resolved"
    /\ increments = <<SpacedHead, AnsweredItem, SpacedLast>>
    /\ Get(Get(JSONParse(accumulatedContent).val, K_questions).a[1], K_userAnswer)
           = JStr(<<"z">>)
    /\ Get(Get(outcome[1].value, K_questions).a[1], K_userAnswer) = Undef
    /\ Len(Get(outcome[1].value, K_questions).a) = 2

\* the increments at which parsePartial was called and raised or returned
\* undefined
FailedProjections ==
    {k \in 1..Len(input) :
        /\ input[k] \in {"raises", "undefined"}
        /\ k \notin Accepted
        /\ ProgressCall(k).progress # 10}

\* C29: an increment at which parsePartial raises or returns undefined is
\* reported by a progress event without a partial value; the request is not
\* rejected for it, it goes on receiving while the source is open
C29_ProjectionFailureNotSurfaced ==
    /\ Cardinality(CallsOf("onProgress")) = chunkCount
    /\ \A k \in FailedProjections :
           /\ ProgressCall(k).partialData = Undef
           /\ ProgressCall(k).progress = IF input[k] = "raises" THEN 25 ELSE 50
    /\ sourceState = "open" => reqState = "receiving" /\ outcome = <<>>
    /\ reqState = "rejected" => sourceState \in {"ended", "error"}

\* C29 witness: parsePartial raised at the first increment and returned undefined
\* at the second, and the third increment was consumed and accepted
C29_Witness ==
    /\ increments = <<SpacedHead, SpacedItem, SpacedLast>>
    /\ input = <<"raises", "undefined", "service">>
    /\ FailedProjections = {1, 2}
    /\ ProgressCall(1) = OnProgress(Undef, 25)
    /\ ProgressCall(2) = OnProgress(Undef, 50)
    /\ reqState = "resolved"

\* C30: when the source stops after finitely many increments, a request that
\* is receiving eventually settles, resolved or rejected: no step of the loop
\* waits for text beyond the buffer it was given
C30_EventuallySettles ==
    (reqState = "receiving") ~> (reqState \in {"resolved", "rejected"})

\* C30 witness: the source ended after two increments that left an unfinished
\* document, and the request settled with a rejection
C30_Witness ==
    /\ increments = <<SpacedHead, SpacedItem>>
    /\ sourceState = "ended"
    /\ reqState = "rejected"
    /\ Len(outcome) = 1

\* C31: when extractJSONFromStream finds the candidate of a buffer complete, it
\* finds the same complete candidate in the buffer followed by any text
C31_CompleteStable ==
    (applied = "extractJSONFromStream.append" /\ output.before.isComplete) =>
        output.after = output.before

\* C31 witness: the buffer x{} has the complete candidate {} , and with }{ after
\* it the candidate is still {}
C31_Witness ==
    /\ applied = "extractJSONFromStream.append"
    /\ input = [b |-> <<"x", "{", "}">>, x |-> <<"}", "{">>]
    /\ output.before = [json |-> <<"{", "}">>, isNull |-> FALSE, isComplete |-> TRUE]
    /\ output.after = output.before

\* the text of the first k increments
TextOfFirst(k) == Flatten(SubSeq(increments, 1, k), 1)

\* C32: once an increment left a candidate that is complete and fails validation,
\* every later increment leaves the same candidate, complete and failing, the
\* request never resolves, and it is rejected when the source has stopped
C32_RefusedForGood ==
    \A k \in Refused :
        /\ \A n \in k..Len(verdicts) : n \in Refused
        /\ extractJSONFromStream(accumulatedContent)
               = extractJSONFromStream(TextOfFirst(k))
        /\ reqState # "resolved"
        /\ sourceState \in {"ended", "error"} => reqState = "rejected"

\* C32 witness: the first increment was a closed question, a complete candidate
\* that is no quiz; the rest of a quiz arrived after it, the source ended and the
\* request was rejected
C32_Witness ==
    /\ increments = <<SpacedItem, SpacedHead, SpacedLast>>
    /\ Refused = {1, 2, 3}
    /\ sourceState = "ended"
    /\ reqState = "rejected"
    /\ outcome[1].error = UnrecoverableStream

\* the outcome of the request when the whole text arrives as one increment
WholeOutcome(text) ==
    StreamSettle(text, StreamIteration(text, 0, getTotalQuestionCount(request), 0).finalResult)

\* C33: for a fixed response text the terminal outcome of the request, the
\* document it resolves with or the failure, is the same for every split of the
\* text into non-empty increments: it is the outcome of the unsplit text
C33_ChunkingIndependent ==
    reqState \in {"resolved", "rejected"} =>
        /\ Len(outcome) = 1
        /\ outcome[1] = WholeOutcome(input)

\* C33 witness: the quiz inside other text arrived cut inside the quiz and
\* inside the text after it, and the request resolved at the second increment
C33_Witness ==
    /\ input = <<"x">> \o EmptyQuiz \o <<" ", "o", "k">>
    /\ Len(increments) = 2
    /\ Len(increments[1]) = 5
    /\ Len(accumulatedContent) = Len(input) - 2
    /\ reqState = "resolved"
    /\ outcome[1] = WholeOutcome(input)

\* the percent values passed to onProgress, in call order
ProgressValues ==
    [k \in 1..Cardinality(CallsOf("onProgress")) |-> ProgressCall(k).progress]

\* C34: within one stream the percent values passed to onProgress never
\* decrease: they are 10, then 50, then 100; 100 is passed at most once, by the
\* last callback of the stream
C34_ProgressMonotonic ==
    /\ \A i \in 1..Len(ProgressValues) :
           /\ ProgressValues[i] \in {10, 50, 100}
           /\ \A j \in i..Len(ProgressValues) : ProgressValues[i] <= ProgressValues[j]
           /\ ProgressValues[i] = 100 => i = Len(ProgressValues)
    /\ \A c \in 1..Len(calls) :
           (calls[c].cb = "onProgress" /\ calls[c].progress = 100) => c = Len(calls)

\* C34 witness: three increments were reported 10, 50 and 100
C34_Witness ==
    /\ increments = <<ScenarioB1, SpacedHead, SpacedLast>>
    /\ ProgressValues = <<10, 50, 100>>
    /\ reqState = "resolved"

\* the text from the first opening brace on, NoText when there is none
TailFromFirstBrace(text) ==
    IF \E i \in 1..Len(text) : text[i] = "{"
    THEN SubSeq(text, CHOOSE i \in 1..Len(text) :
                          text[i] = "{" /\ \A j \in 1..(i - 1) : text[j] # "{",
                Len(text))
    ELSE NoText

\* C35: when the stream has ended and the text from the first '{' on is a valid
\* document whose brace count never returned to zero, the request resolves with
\* that document through the attempt after the loop, and no progress callback
\* carried 100
C35_ResolvedWithoutFullProgress ==
    (/\ sourceState = "ended"
     /\ ~extractJSONFromStream(accumulatedContent).isComplete
     /\ TailFromFirstBrace(accumulatedContent) # NoText
     /\ validateQuizResponse(TailFromFirstBrace(accumulatedContent)).isValid)
    => /\ reqState = "resolved"
       /\ outcome = <<Resolved(addUserAnswerFields(
                         validateQuizResponse(TailFromFirstBrace(accumulatedContent)).data))>>
       /\ \A k \in 1..Len(ProgressValues) : ProgressValues[k] # 100
       /\ ~Truthy(finalResult)

\* C35 witness: the quiz whose id is an opening brace arrived in two increments,
\* was reported at 50 twice and the request resolved when the stream ended
C35_Witness ==
    /\ input = BraceQuiz
    /\ accumulatedContent = BraceQuiz
    /\ sourceState = "ended"
    /\ ~extractJSONFromStream(accumulatedContent).isComplete
    /\ reqState = "resolved"
    /\ outcome = <<Resolved(addUserAnswerFields(validateQuizResponse(BraceQuiz).data))>>
    /\ ProgressValues = <<50, 50>>

\* C36 (as stated): every object reported in completeQuestions is a direct
\* element of the questions array; an object that stands after the closing
\* bracket of the array is never reported
C36_OnlyArrayElements ==
    applied = "extractCompleteQuestions.array" =>
        output.completeQuestions = KeptItems(input.items, 1)

\* the scan does stop reporting at the closing bracket when what follows holds
\* no object with id, type and question
C36_PlainTailIgnored ==
    (applied = "extractCompleteQuestions.array" /\ input.tail # TailQuestionLike) =>
        output.completeQuestions = KeptItems(input.items, 1)

\* the object of a later field is reported as one more question
C36_Reached ==
    /\ applied = "extractCompleteQuestions.array"
    /\ input.items = <<[text |-> ItemOne, kept |-> TRUE]>>
    /\ input.tail = TailQuestionLike
    /\ Len(output.completeQuestions) = 2
    /\ Get(output.completeQuestions[2], K_id) = JStr(<<"9">>)

\* a reset ran while the request that is now live or settled was receiving
ResetWhileReceiving == applied \in {"resetGeneration.receiving", "resetApp.receiving"}

\* C37 (as stated): after resetApp or resetGeneration ran while a streaming
\* generation was in flight, the generation slice stays status 'idle',
\* currentQuiz null, streamingQuestions empty and completedQuestionCount 0: no
\* later callback or completion of the abandoned stream changes it
C37_ResetHolds ==
    ResetWhileReceiving =>
        /\ generation.status = "idle"
        /\ generation.currentQuiz = JNull
        /\ generation.streamingQuestions = <<>>
        /\ generation.completedQuestionCount = 0

\* the reset itself does restore the initial slice: it holds until the abandoned
\* stream delivers its next callback
C37_ResetRestores ==
    [][(ResetGeneration \/ ResetApp) => generation' = IdleGeneration]_vars

\* after the reset the abandoned stream completed and filled the slice again
C37_Reached ==
    /\ ResetWhileReceiving
    /\ increments = <<SpacedHead, SpacedItem, SpacedLast>>
    /\ reqState = "resolved"
    /\ generation.status = "complete"
    /\ generation.completedQuestionCount = 2

\* the contents of the data lines from the i-th on, up to the [DONE] line
RECURSIVE ExpectedYield(_, _)
ExpectedYield(lines, i) ==
    IF i > Len(lines) \/ lines[i].done THEN <<>>
    ELSE lines[i].yields \o ExpectedYield(lines, i + 1)

\* C38: chatStream yields the delta contents of the data lines, in stream order,
\* up to the [DONE] line; what it has yielded when it ends is the same for every
\* split of the response bytes into reads, that of a single read of the whole
\* body, and while it reads it has yielded the contents of the lines it has seen
\* whole
C38_YieldIndependentOfReads ==
    applied = "chatStream" =>
        /\ output.state \in {"done", "returned"} =>
               /\ output.yielded = ExpectedYield(input, 1)
               /\ output.yielded = ReadStep(OpenReader, Body(input, 1)).yielded
        /\ Len(output.yielded) <= Len(ExpectedYield(input, 1))
        /\ output.yielded = SubSeq(ExpectedYield(input, 1), 1, Len(output.yielded))

\* C38 witness: the first read ended between the two bytes of a character inside
\* a data line, and the line was yielded once, whole, after the second read
C38_Witness ==
    /\ applied = "chatStream"
    /\ Len(output.sizes) = 2
    /\ Body(input, 1)[output.sizes[1]] = LeadByte
    /\ output.state = "returned"
    /\ output.yielded = <<JStr(<<"a">>), JStr(<<TwoByteChar>>)>>

\* C39: after any sequence of addLog, removeLogs and clearLogs the store holds
\* at most maxLogs entries, in the order they were added; after an addLog the new
\* entry is the last one and the entries before it are the newest of the list
\* the call found, as many as the cap leaves room for
C39_LogsCapped ==
    applied \in {"addLog", "removeLogs", "clearLogs"} =>
        /\ Len(output.logs) <= maxLogs
        /\ \A i, j \in 1..Len(output.logs) : i < j => output.logs[i].n < output.logs[j].n
        /\ applied = "addLog" =>
               /\ output.logs # <<>>
               /\ output.logs[Len(output.logs)].n = output.added
               /\ SubSeq(output.logs, 1, Len(output.logs) - 1)
                      = ArraySlice(output.before,
                                   Max(Len(output.before) - (maxLogs - 1), 0))

\* C39 witness: addLog found the list full, dropped its oldest entry and put the
\* new entry last
C39_Witness ==
    /\ applied = "addLog"
    /\ Len(output.before) = maxLogs
    /\ Len(output.logs) = maxLogs
    /\ output.logs[1] = output.before[2]
    /\ output.logs[maxLogs].n = output.added

====
